---- MODULE Spec2Model ----
(***************************************************************************)
(* Data-acquisition layer of the Loquiz results viewer.                    *)
(*                                                                         *)
(*   - services/loquizService.ts : fetchWithRetry and the fetch* queries   *)
(*     (candidate endpoints x transports), modelled request by request.    *)
(*   - LoquizResults (unnamed/part_000) : loadData, interval polling, the  *)
(*     live-event tracker and the synthetic task merge.                    *)
(*   - App.tsx : loadGameData preloader, viewResults, goBackToLobby.       *)
(*                                                                         *)
(* A JavaScript continuation runs atomically between two awaits, so every  *)
(* action is "a promise settles and the code runs up to its next await".   *)
(***************************************************************************)
EXTENDS Integers, Sequences, FiniteSets, TLC

VARIABLES
    \* ---- one logical query of loquizService.ts ----
    op,          \* which fetch* function is running ("none" before the call)
    pc,          \* "idle" | "wait" (one fetch outstanding) | "done" |
                 \* "hung" (the outstanding fetch will never settle)
    phase,       \* fetchGamePhotos only: "media" loop or nested "results" query
    cand,        \* index of the endpoint the candidate loop is at
    proxy,       \* index into PROXIES the transport loop is at
    lastError,   \* fetchWithRetry's lastError
    acc,         \* allFetchedGames / photos accumulated so far
    ret,         \* how the query settled: [kind, val]
    reqLog,      \* settled requests, in order: [c, p, st, n] (st = 0: fetch rejected)
    issued       \* ghost: fetch calls made by the query so far

VARIABLES
    \* ---- one LoquizResults component (unnamed/part_000) ----
    mounted,              \* the component is rendered (currentView = 'results')
    gameId,               \* the gameId prop of the latest instance
    results,              \* useState<PlayerResult[] | null>(null)
    tasks,                \* useState<GameTask[]>([])
    gameName,             \* useState<string | null>(null)
    isLoading,            \* useState(true)
    error,                \* useState<string | null>(null)
    viewMode,             \* 'ranking' | 'taskmaster'
    liveEvent,            \* 0: null, else the diff shown in the toast
    totalAnswerCountRef,  \* useRef<number>(0)
    isFirstLoadRef,       \* useRef<boolean>(true)
    loads,                \* loadData calls of the instance suspended at an await, in call order
    stale,                \* suspended loadData calls of instances dropped since
    toastTimers,          \* pending setTimeout(() => setLiveEvent(null), 4000)
    nLoads,               \* loadData calls made by the latest instance
    nObs,                 \* ghost: snapshots the latest instance has observed
    lastObs,              \* ghost: the latest of them: [total, how, refresh]
    track,                \* ghost: the observed totals are Scenario[1..track] (-1: not)
    emitted,              \* ghost: notifications the instance raised: [at, delta]
    left                  \* ghost: the total the instance dropped last had stored, kept
                          \* while the instance after it shows another game (-1: none)

VARIABLES
    \* ---- App (App.tsx) ----
    selectedGameId,       \* useState<string | null>(null); "none": null
    currentView,          \* useState<ViewState>('lobby'): the key is hard-coded
    appResults,           \* App's results: useState<PlayerResult[]>([])
    appTasks,             \* App's tasks: useState<GameTask[]>([])
    appPhotos,            \* App's photos: useState<GamePhoto[]>([])
    appGameName,          \* App's gameName: useState<string | null>(null)
    dataLoaded,           \* useState(false)
    preloads,             \* loadGameData calls suspended at Promise.all: [gameId]
    writer                \* ghost: gameId of the call that wrote the data state last

VARIABLES
    \* ---- the task merge of loadData applied to drawn inputs ----
    inTasks,              \* finalTasks before the merge
    inResults,            \* resultsData
    merged                \* NoList until the merge ran, then Some(the catalog after it)

VARIABLES
    \* ---- one call of a pure helper of the service ----
    arg,                  \* the argument drawn for the call
    res                   \* NoList until the helper ran, then Some(what it returned)

VARIABLES
    \* ---- ghost of the order in which polls are answered ----
    order                 \* [behind, late], see TrackOrder

qvars == <<op, pc, phase, cand, proxy, lastError, acc, ret, reqLog, issued>>

vvars == <<mounted, gameId, results, tasks, gameName, isLoading, error, viewMode,
           liveEvent, totalAnswerCountRef, isFirstLoadRef, loads, stale, toastTimers,
           nLoads, nObs, lastObs, track, emitted, left>>

avars == <<selectedGameId, currentView, appResults, appTasks, appPhotos, appGameName,
           dataLoaded, preloads, writer>>

rvars == <<inTasks, inResults, merged>>

pvars == <<arg, res>>
gvars == <<order>>

vars == <<qvars, vvars, avars, rvars, pvars, gvars>>

----------------------------------------------------------------------------
(* Values *)

Absent == "absent"      \* a missing (undefined) string field

\* An optional list field: <<>> when the field is missing, <<list>> when present.
NoList == <<>>
Some(l) == <<l>>

\* const PROXIES = ['', corsproxy, codetabs]
PROXIES == <<"direct", "corsproxy.io", "codetabs">>

\* [404, 401, 403, 422].includes(res.status): statuses fetchWithRetry hands back
\* Mutant of PassThrough: 401 and 403 are retried on the next transport.
PassThroughNoAuth == {404, 422}
\* Mutant of PassThrough: 404 and 422 are retried on the next transport.
PassThroughAuthOnly == {401, 403}

PassThrough == {404, 401, 403, 422}

AuthStatuses == {401, 403}

\* Statuses the upstream or a relay answers with in the model.
Statuses == {200, 401, 403, 404, 422, 500}

\* res.ok
IsOk(st) == st >= 200 /\ st <= 299

----------------------------------------------------------------------------
(* Upstream data.  Every candidate endpoint serves its own records, so the  *)
(* origin of a returned collection can be told from its content.            *)

NumCandidates(o) ==
    CASE o = "games"   -> 2      \* endpoints, fetchGames
      [] o = "info"    -> 2      \* infoEndpoints
      [] o = "tasks"   -> 3      \* taskEndpoints
      [] o = "results" -> 3      \* resultEndpoints
      [] o = "photos"  -> 3      \* endpoints, fetchGamePhotos

GameIds == {"g1", "g2"}

\* A raw task record of a tasks/questions endpoint.
RawTask(i, ttl) == [isNull |-> FALSE, id |-> i, title |-> ttl, type |-> Absent]

\* A raw answer inside a team record (task and question stand for task?.id
\* and question?.id).
RawAnswer(tid, qid, media) ==
    [taskId |-> tid, questionId |-> qid, task |-> Absent, question |-> Absent,
     question_id |-> Absent, score |-> 1, mediaUrl |-> media, url |-> Absent]

\* A raw team record of a results endpoint (position 0: no position field).
RawTeam(nm, sc, pos, ans) ==
    [isNull |-> FALSE, name |-> nm, totalScore |-> sc, position |-> pos, answers |-> ans]

\* A raw record of a media endpoint.
RawMedia(i, u, m) ==
    [isNull |-> FALSE, id |-> i, url |-> u, mediaUrl |-> m, thumbnailUrl |-> Absent,
     teamName |-> Absent]

\* A raw game record of a games endpoint.
RawGame(i, ttl) == [isNull |-> FALSE, id |-> i, title |-> ttl]

\* JSON null where a record was expected.
NullRec == [isNull |-> TRUE]

TaskData(c) ==
    CASE c = 1 -> <<RawTask("t1", "Alpha"), RawTask("t2", Absent)>>
      [] c = 2 -> <<RawTask("t2", "Beta")>>
      [] c = 3 -> <<RawTask("t3", "Gamma"), RawTask("t1", "Alpha")>>

ResultData(c) ==
    CASE c = 1 -> <<RawTeam("Red", 30, 0,
                       <<RawAnswer("t1", Absent, "http://x/1.jpg"),
                         RawAnswer(Absent, "t4", Absent)>>),
                    RawTeam("Blue", 10, 0, <<RawAnswer(Absent, Absent, Absent)>>)>>
      [] c = 2 -> <<RawTeam("Red", 20, 1, <<RawAnswer("t2", Absent, Absent)>>)>>
      [] c = 3 -> <<RawTeam("Blue", 5, 0, <<>>),
                    RawTeam("Red", 7, 1, <<RawAnswer("t1", Absent, "http://x/2.jpg")>>)>>

MediaData(c) ==
    CASE c = 1 -> <<RawMedia("m1", "http://x/1.jpg", Absent), RawMedia("m2", Absent, Absent)>>
      [] c = 2 -> <<RawMedia("m3", Absent, "http://x/1.jpg")>>
      [] c = 3 -> <<RawMedia(Absent, "http://x/3.jpg", Absent)>>

GameData(c) ==
    CASE c = 1 -> <<RawGame("g1", "One"), RawGame(Absent, "NoId")>>
      [] c = 2 -> <<RawGame("g1", "Uno"), RawGame("g2", Absent)>>

Data(o, c) ==
    CASE o = "tasks"   -> TaskData(c)
      [] o = "results" -> ResultData(c)
      [] o = "photos"  -> MediaData(c)
      [] o = "games"   -> GameData(c)
      [] o = "info"    -> <<>>

\* Response bodies.  kind "malformed": response.json() rejects; "null": JSON
\* null; "array": a bare list; "object": an object with optional data / items /
\* title / tasks fields.
Body(k, a, d, i, ttl, tk) ==
    [kind |-> k, arr |-> a, data |-> d, items |-> i, title |-> ttl, tasks |-> tk]

Malformed == Body("malformed", <<>>, NoList, NoList, Absent, NoList)
JsonNull  == Body("null", <<>>, NoList, NoList, Absent, NoList)
Arr(a)    == Body("array", a, NoList, NoList, Absent, NoList)
Obj(d, i) == Body("object", <<>>, d, i, Absent, NoList)
InfoObj(ttl, tk) == Body("object", <<>>, NoList, NoList, ttl, tk)

NoBody == Malformed

Bodies(o, c) ==
    IF o = "info"
    THEN {Malformed, JsonNull, InfoObj("Game", NoList), InfoObj(Absent, Some(TaskData(c))),
          InfoObj("Game", Some(<<NullRec>>))}
    ELSE {Malformed, JsonNull, Arr(<<>>), Arr(Data(o, c)), Obj(Some(Data(o, c)), NoList),
          Obj(NoList, Some(Data(o, c))), Obj(NoList, NoList), Arr(<<NullRec>>)}

\* What one fetch can settle with: st = 0 is a rejected fetch (network failure).
NetFail == [st |-> 0, body |-> NoBody]

Outcomes(o, c) ==
    {NetFail}
      \cup {[st |-> s, body |-> NoBody] : s \in Statuses \ {200}}
      \cup {[st |-> 200, body |-> b] : b \in Bodies(o, c)}

----------------------------------------------------------------------------
(* Pure helpers of loquizService.ts *)

HasNull(l) == \E i \in 1..Len(l) : l[i].isNull

\* Array.isArray(json) ? json : (json.data || json.items || [])   (dataFirst)
\* Array.isArray(json) ? json : (json.items || json.data || [])   (~dataFirst)
\* threw: response.json() rejected, or a field of JSON null was read.
Unwrap(body, dataFirst) ==
    CASE body.kind \in {"malformed", "null"} -> [threw |-> TRUE, list |-> <<>>]
      [] body.kind = "array" -> [threw |-> FALSE, list |-> body.arr]
      [] OTHER ->
          LET first  == IF dataFirst THEN body.data ELSE body.items
              second == IF dataFirst THEN body.items ELSE body.data
          IN  [threw |-> FALSE,
               list  |-> IF first # NoList THEN first[1]
                         ELSE IF second # NoList THEN second[1] ELSE <<>>]

\* getTaskTitle on a record that carries only title and id:
\* extract(intro) || t.id || "Unknown task"
getTaskTitle(t) ==
    IF t.title # Absent THEN t.title
    ELSE IF t.id # Absent THEN t.id ELSE "Unknown task"

mapApiTasksToGameTasks(data) ==
    [i \in 1..Len(data) |->
        [id    |-> data[i].id,
         title |-> getTaskTitle(data[i]),
         type  |-> IF data[i].type # Absent THEN data[i].type ELSE "unknown"]]

\* a.taskId || a.questionId || ... ; 'unknown-id' when nothing resolves
ResolveTaskId(a) ==
    IF a.taskId # Absent THEN a.taskId
    ELSE IF a.questionId # Absent THEN a.questionId
    ELSE IF a.task # Absent THEN a.task
    ELSE IF a.question # Absent THEN a.question
    ELSE IF a.question_id # Absent THEN a.question_id
    ELSE "unknown-id"

\* Mutant of MapAnswers: the filter on 'unknown-id' is missing.
MapAnswersKeepsUnknown(raws) ==
    [i \in 1..Len(raws) |->
        [taskId |-> ResolveTaskId(raws[i]), score |-> raws[i].score, raw |-> raws[i]]]

MapAnswers(raws) ==
    SelectSeq([i \in 1..Len(raws) |->
                  [taskId |-> ResolveTaskId(raws[i]), score |-> raws[i].score,
                   raw |-> raws[i]]],
              LAMBDA a : a.taskId # "unknown-id")

\* data.map((team, index) => ...) of fetchGameResults
MapTeams(data) ==
    [i \in 1..Len(data) |->
        [position |-> IF data[i].position # 0 THEN data[i].position ELSE i,
         name     |-> data[i].name,
         score    |-> data[i].totalScore,
         answers  |-> MapAnswers(data[i].answers)]]

\* Mutant of AddGames: a record without an id is not skipped.
RECURSIVE AddGamesKeepsIdless(_, _)
AddGamesKeepsIdless(games, items) ==
    IF items = <<>> \/ Head(items).isNull THEN games
    ELSE LET g == Head(items)
             seen == {games[i].id : i \in 1..Len(games)}
         IN  IF g.id # Absent /\ g.id \in seen
             THEN AddGamesKeepsIdless(games, Tail(items))
             ELSE AddGamesKeepsIdless(Append(games,
                       [id |-> g.id, name |-> IF g.title # Absent THEN g.title ELSE g.id]),
                       Tail(items))

\* Mutant of AddGames: seenIds is not consulted.
RECURSIVE AddGamesKeepsDuplicates(_, _)
AddGamesKeepsDuplicates(games, items) ==
    IF items = <<>> \/ Head(items).isNull THEN games
    ELSE LET g == Head(items)
         IN  IF g.id = Absent
             THEN AddGamesKeepsDuplicates(games, Tail(items))
             ELSE AddGamesKeepsDuplicates(Append(games,
                       [id |-> g.id, name |-> IF g.title # Absent THEN g.title ELSE g.id]),
                       Tail(items))

\* items.forEach(...) of fetchGames: stops where a null record makes it throw,
\* keeping what was pushed before.
RECURSIVE AddGames(_, _)
AddGames(games, items) ==
    IF items = <<>> \/ Head(items).isNull THEN games
    ELSE LET g == Head(items)
             seen == {games[i].id : i \in 1..Len(games)}
         IN  IF g.id = Absent \/ g.id \in seen
             THEN AddGames(games, Tail(items))
             ELSE AddGames(Append(games,
                       [id |-> g.id, name |-> IF g.title # Absent THEN g.title ELSE g.id]),
                       Tail(items))

HttpUrls == {"http://x/1.jpg", "http://x/2.jpg", "http://x/3.jpg"}

\* photos.push({ ...raw, url, teamName: team.name, taskTitle: 'Photo' })
AnswerPhoto(raw, u, team) ==
    [isNull |-> FALSE, id |-> Absent, url |-> u, mediaUrl |-> raw.mediaUrl,
     thumbnailUrl |-> Absent, teamName |-> team]

\* possibleUrls.forEach(...) for one answer
AnswerPhotos(ans, team) ==
    LET r == ans.raw
    IN  (IF r.mediaUrl \in HttpUrls THEN <<AnswerPhoto(r, r.mediaUrl, team)>> ELSE <<>>)
          \o (IF r.url \in HttpUrls THEN <<AnswerPhoto(r, r.url, team)>> ELSE <<>>)

RECURSIVE Flatten(_)
Flatten(ll) == IF ll = <<>> THEN <<>> ELSE Head(ll) \o Flatten(Tail(ll))

\* results.forEach(team => team.answers?.forEach(ans => ...))
ScanAnswers(teams) ==
    Flatten([t \in 1..Len(teams) |->
        Flatten([a \in 1..Len(teams[t].answers) |->
            AnswerPhotos(teams[t].answers[a], teams[t].name)])])

\* p.url || p.mediaUrl || ...
PhotoUrl(p) == IF p.url # Absent THEN p.url ELSE p.mediaUrl

MapPhoto(p) ==
    [id |-> IF p.id # Absent THEN p.id ELSE "random",
     url |-> PhotoUrl(p),
     thumbnailUrl |-> IF p.thumbnailUrl # Absent THEN p.thumbnailUrl ELSE PhotoUrl(p),
     teamName |-> IF p.teamName # Absent THEN p.teamName ELSE "Unknown Team"]

\* Mutant of DedupeByUrl: seenUrls.add(p.url) is missing.
RECURSIVE DedupeNoAdd(_, _)
DedupeNoAdd(ps, seen) ==
    IF ps = <<>> THEN <<>>
    ELSE IF Head(ps).url = Absent \/ Head(ps).url \in seen
         THEN DedupeNoAdd(Tail(ps), seen)
         ELSE <<Head(ps)>> \o DedupeNoAdd(Tail(ps), seen)

\* Mutant of DedupeByUrl: a photo without a url passes the filter.
RECURSIVE DedupeKeepsUrlless(_, _)
DedupeKeepsUrlless(ps, seen) ==
    IF ps = <<>> THEN <<>>
    ELSE IF Head(ps).url \in seen
         THEN DedupeKeepsUrlless(Tail(ps), seen)
         ELSE <<Head(ps)>> \o DedupeKeepsUrlless(Tail(ps), seen \cup {Head(ps).url})

\* .filter(p => { if (!p.url || seenUrls.has(p.url)) return false; ... })
RECURSIVE DedupeByUrl(_, _)
DedupeByUrl(ps, seen) ==
    IF ps = <<>> THEN <<>>
    ELSE IF Head(ps).url = Absent \/ Head(ps).url \in seen
         THEN DedupeByUrl(Tail(ps), seen)
         ELSE <<Head(ps)>> \o DedupeByUrl(Tail(ps), seen \cup {Head(ps).url})

----------------------------------------------------------------------------
(* The candidate / transport sequencer *)

Pending  == [kind |-> "pending", val |-> <<>>]
Value(v) == [kind |-> "value", val |-> v]
Threw    == [kind |-> "threw", val |-> <<>>]

InitialError == "Network request failed"
ErrorOf(o) == IF o.st = 0 THEN "fetch rejected" ELSE "Status"

\* Mutant of fetchWithRetry: after the last transport one more attempt is made.
fetchWithRetryExtraAttempt(o, p) ==
    IF o.st # 0 /\ (IsOk(o.st) \/ o.st \in PassThrough) THEN "return"
    ELSE IF p < Len(PROXIES) + 1 THEN "retry" ELSE "throw"

\* One iteration of fetchWithRetry's loop over PROXIES, for the fetch that
\* settled with o on transport p: hand the response back, go to the next
\* transport, or throw lastError once the list is exhausted.
fetchWithRetry(o, p) ==
    IF o.st # 0 /\ (IsOk(o.st) \/ o.st \in PassThrough) THEN "return"
    ELSE IF p < Len(PROXIES) THEN "retry" ELSE "throw"

Miss == [hit |-> FALSE, val |-> <<>>]
Hit(v) == [hit |-> TRUE, val |-> v]

\* Mutant of fetchGameTasks: the data.length > 0 test is missing.
fetchGameTasksAcceptsEmpty(r) ==
    IF ~IsOk(r.st) THEN [hit |-> FALSE, val |-> <<>>]
    ELSE LET u == Unwrap(r.body, TRUE)
         IN  IF u.threw \/ HasNull(u.list) THEN [hit |-> FALSE, val |-> <<>>]
             ELSE [hit |-> TRUE, val |-> mapApiTasksToGameTasks(u.list)]

\* Body of fetchGameTasks' loop for a response r handed back by fetchWithRetry.
fetchGameTasks(r) ==
    IF ~IsOk(r.st) THEN Miss
    ELSE LET u == Unwrap(r.body, TRUE)
         IN  IF u.threw \/ Len(u.list) = 0 \/ HasNull(u.list) THEN Miss
             ELSE Hit(mapApiTasksToGameTasks(u.list))

\* Mutant of fetchGameResults: the data.length === 0 test is missing.
fetchGameResultsAcceptsEmpty(r) ==
    IF ~IsOk(r.st) THEN [hit |-> FALSE, val |-> <<>>]
    ELSE LET u == Unwrap(r.body, TRUE)
         IN  IF u.threw \/ HasNull(u.list) THEN [hit |-> FALSE, val |-> <<>>]
             ELSE [hit |-> TRUE, val |-> MapTeams(u.list)]

\* Body of fetchGameResults' loop.
fetchGameResults(r) ==
    IF ~IsOk(r.st) THEN Miss
    ELSE LET u == Unwrap(r.body, TRUE)
         IN  IF u.threw \/ Len(u.list) = 0 \/ HasNull(u.list) THEN Miss
             ELSE Hit(MapTeams(u.list))

\* Body of fetchGameInfo's loop.
fetchGameInfo(r) ==
    IF ~IsOk(r.st) \/ r.body.kind \in {"malformed", "null"} THEN Miss
    ELSE Hit(<<[name  |-> IF r.body.title # Absent THEN r.body.title ELSE "gameId",
                tasks |-> r.body.tasks]>>)

\* Body of fetchGames' loop: the games pushed so far after this response.
fetchGames(r, games) ==
    IF ~IsOk(r.st) THEN games
    ELSE LET u == Unwrap(r.body, FALSE)
         IN  IF u.threw THEN games ELSE AddGames(games, u.list)

\* Body of fetchGamePhotos' endpoint loop: photos = [...photos, ...data]
PhotosLoop(r, photos) ==
    IF ~IsOk(r.st) THEN photos
    ELSE LET u == Unwrap(r.body, FALSE)
         IN  IF u.threw \/ Len(u.list) = 0 THEN photos ELSE photos \o u.list

\* Mutant of PhotosFinish: the photos of the answers are put before the
\* records of the media endpoints.
PhotosFinishAnswersFirst(photos, teams) ==
    LET all == ScanAnswers(teams) \o photos
    IN  IF HasNull(all) THEN Threw
        ELSE Value(DedupeByUrl([i \in 1..Len(all) |-> MapPhoto(all[i])], {}))

\* Tail of fetchGamePhotos: scan the answers of the results, then map and
\* filter.  The final map reads p.url of every element outside any try block.
PhotosFinish(photos, teams) ==
    LET all == photos \o ScanAnswers(teams)
    IN  IF HasNull(all) THEN Threw
        ELSE Value(DedupeByUrl([i \in 1..Len(all) |-> MapPhoto(all[i])], {}))

\* The endpoint list the running loop walks.
LoopOp(o, ph) == IF o = "photos" /\ ph = "results" THEN "results" ELSE o

Ctl(p, ph, c, a, r) == [pc |-> p, phase |-> ph, cand |-> c, acc |-> a, ret |-> r]

Finish(ph, c, a, r) == Ctl("done", ph, c, a, r)

\* The loop over the endpoints is over without a return from inside it.
Exhausted(o, ph, c, a) ==
    CASE o \in {"tasks", "results"} -> Finish(ph, c, a, Value(<<>>))
      [] o = "info"   -> Finish(ph, c, a, Value(<<[name |-> "gameId", tasks |-> NoList]>>))
      [] o = "games"  -> Finish(ph, c, a, Value(a))
      [] o = "photos" /\ ph = "media"   -> Ctl("wait", "results", 1, a, Pending)
      [] o = "photos" /\ ph = "results" -> Finish(ph, c, a, PhotosFinish(a, <<>>))

\* The current candidate is given up: next endpoint, or the loop is over.
NextCandidate(o, ph, c, a) ==
    IF c < NumCandidates(LoopOp(o, ph))
    THEN Ctl("wait", ph, c + 1, a, Pending)
    ELSE Exhausted(o, ph, c, a)

\* fetchWithRetry threw: every caller's catch (e) {} swallows it.
OnThrow(o, ph, c, a) == NextCandidate(o, ph, c, a)

\* fetchWithRetry handed back response r: the rest of the loop body.
OnResponse(o, ph, c, a, r) ==
    LET lo  == LoopOp(o, ph)
        try == CASE lo = "tasks"   -> fetchGameTasks(r)
                 [] lo = "results" -> fetchGameResults(r)
                 [] lo = "info"    -> fetchGameInfo(r)
                 [] OTHER          -> Miss
    IN  CASE o = "games"  -> NextCandidate(o, ph, c, fetchGames(r, a))
          [] o = "photos" /\ ph = "media" -> NextCandidate(o, ph, c, PhotosLoop(r, a))
          [] o = "photos" /\ ph = "results" ->
                IF try.hit THEN Finish(ph, c, a, PhotosFinish(a, try.val))
                ELSE NextCandidate(o, ph, c, a)
          [] OTHER ->
                IF try.hit THEN Finish(ph, c, a, Value(try.val))
                ELSE NextCandidate(o, ph, c, a)

\* Ghost: how many records the response's body unwraps to; -1 when the response
\* is no 2xx or the try block of the loop body throws on it (json() rejects, a
\* field of null is read).
Parsed(o, r) ==
    IF ~IsOk(r.st) THEN -1
    ELSE LET u == Unwrap(r.body, o \in {"tasks", "results"})
         IN  IF u.threw \/ HasNull(u.list) THEN -1 ELSE Len(u.list)

Ops == {"tasks", "results", "info", "games"}

ApiKeys == {"GUEST", "ApiKey-v1 k"}

\* Mutant of Issue: an iteration starts the fetch on every transport at once.
IssueAllTransports(k) == k + Len(PROXIES)

\* const res = await fetch(finalUrl, options): an iteration of the transport
\* loop makes one fetch call and suspends until it settles.
Issue(k) == k + 1

\* A fetch* function is called: it issues its first request at once
\* (fetchGames with the key 'GUEST' returns [] without any request).
Call(o, key) ==
    /\ pc = "idle"
    /\ op' = o
    /\ phase' = IF o = "photos" THEN "media" ELSE "loop"
    /\ cand' = 1
    /\ proxy' = 1
    /\ lastError' = InitialError
    /\ acc' = <<>>
    /\ IF o = "games" /\ key = "GUEST"
       THEN pc' = "done" /\ ret' = Value(<<>>) /\ issued' = 0
       ELSE pc' = "wait" /\ ret' = Pending /\ issued' = Issue(0)
    /\ UNCHANGED <<reqLog, vvars, avars, rvars, pvars, gvars>>

\* The outstanding fetch settles and the code runs to its next await.
Settle(keep) ==
    /\ pc = "wait"
    /\ \E o \in Outcomes(LoopOp(op, phase), cand) :
         LET v == fetchWithRetry(o, proxy)
             n == IF v = "return" THEN OnResponse(op, phase, cand, acc, o)
                  ELSE OnThrow(op, phase, cand, acc)
         IN  /\ reqLog' = IF keep
                          THEN Append(reqLog, [c |-> cand, p |-> proxy, st |-> o.st,
                                               n |-> Parsed(LoopOp(op, phase), o)])
                          ELSE reqLog
             /\ issued' = IF keep /\ (v = "retry" \/ n.pc = "wait")
                          THEN Issue(issued) ELSE issued
             /\ IF v = "retry"
                THEN /\ proxy' = proxy + 1
                     /\ lastError' = ErrorOf(o)
                     /\ UNCHANGED <<pc, phase, cand, acc, ret>>
                ELSE /\ pc' = n.pc
                     /\ phase' = n.phase
                     /\ cand' = n.cand
                     /\ acc' = n.acc
                     /\ ret' = n.ret
                     /\ proxy' = IF n.pc = "wait" THEN 1 ELSE proxy
                     /\ lastError' = IF n.pc = "wait" THEN InitialError
                                     ELSE IF v = "throw" THEN ErrorOf(o) ELSE lastError
    /\ UNCHANGED <<op, vvars, avars, rvars, pvars, gvars>>

\* The transport accepts the outstanding request and never answers it: the
\* promise of fetch(finalUrl, options) stays pending, and nothing else in
\* fetchWithRetry (no timer, no abort signal) can resume the loop.
Silence ==
    /\ pc = "wait"
    /\ pc' = "hung"
    /\ UNCHANGED <<op, phase, cand, proxy, lastError, acc, ret, reqLog, issued,
                   vvars, avars, rvars, pvars, gvars>>

QueryInit ==
    /\ op = "none"
    /\ pc = "idle"
    /\ phase = "loop"
    /\ cand = 1
    /\ proxy = 1
    /\ lastError = InitialError
    /\ acc = <<>>
    /\ ret = Pending
    /\ reqLog = <<>>
    /\ issued = 0

----------------------------------------------------------------------------
(* LoquizResults: what the fetch* calls of loadData can resolve with.  The   *)
(* whole query is one await for the component, so its outcome is drawn here  *)
(* from the values the sequencer above can return.                           *)

MaxLoads == 4       \* loadData calls of one instance
MaxInFlight == 2    \* loadData calls suspended at the same time, stale ones included

\* The totals of the worked example of the poll diff tracker.
Scenario == <<5, 5, 8, 8>>

NoObs == [total |-> 0, how |-> "none", refresh |-> FALSE]

TaskIds == <<"t1", "t2", "t3", "t4">>

\* n raw answers whose task references walk TaskIds starting after offset k.
AnswersOf(n, k) ==
    [i \in 1..n |-> RawAnswer(TaskIds[((i + k - 1) % Len(TaskIds)) + 1], Absent, Absent)]

\* The raw results of a game in which Red gave a answers and Blue b answers.
Snap(a, b) == <<RawTeam("Red", 10 * a + 5, 0, AnswersOf(a, 0)),
                RawTeam("Blue", 10 * b, 0, AnswersOf(b, 2))>>

\* Answer counts of the upstream snapshots: totals 5 and 8.
SnapShapes == {<<4, 1>>, <<4, 4>>}

Ok200(list) == [st |-> 200, body |-> Arr(list)]

\* fetchGameResults: [] when every candidate failed on every transport or
\* answered an empty list, else the mapped teams of the first non-empty one.
ResultsReturns ==
    {[how |-> h, val |-> Exhausted("results", "loop", NumCandidates("results"), <<>>).ret.val] :
        h \in {"failed", "empty"}}
      \cup {[how |-> "data", val |-> fetchGameResults(Ok200(Snap(sh[1], sh[2]))).val] :
              sh \in SnapShapes}

\* fetchGameTasks: [] or the mapped tasks of the first candidate.
TasksReturns ==
    {Exhausted("tasks", "loop", NumCandidates("tasks"), <<>>).ret.val,
     fetchGameTasks(Ok200(TaskData(1))).val}

\* fetchGameInfo: { name: gameId } or the info of the first candidate.
InfoReturns ==
    {Exhausted("info", "loop", NumCandidates("info"), <<>>).ret.val[1]}
      \cup {fetchGameInfo([st |-> 200, body |-> b]).val[1] :
              b \in {x \in Bodies("info", 1) : fetchGameInfo([st |-> 200, body |-> x]).hit}}

----------------------------------------------------------------------------
(* LoquizResults: loadData *)

RECURSIVE SumLens(_)
SumLens(teams) ==
    IF teams = <<>> THEN 0 ELSE Len(Head(teams).answers) + SumLens(Tail(teams))

\* Mutant of TotalAnswers: the teams are counted, not their answers.
TotalAnswersCountsTeams(resultsData) == Len(resultsData)

\* resultsData.forEach(team => currentTotalAnswers += (team.answers?.length || 0))
TotalAnswers(resultsData) == SumLens(resultsData)

\* Mutant of ShouldNotify: the first-load flag is not consulted.
ShouldNotifyIgnoringFirst(first, stored, total) == total > stored

\* !isFirstLoadRef.current && currentTotalAnswers > totalAnswerCountRef.current
ShouldNotify(first, stored, total) == ~first /\ total > stored

\* Mutant of InitialRefs: a new instance starts with the first-load flag cleared.
InitialRefsArmed == [total |-> 0, first |-> FALSE]

\* useRef<number>(0), useRef<boolean>(true): created with every instance
InitialRefs == [total |-> 0, first |-> TRUE]

\* info.tasks.map(t => ({ id: t.id, title: getTaskTitle(t), type: t.type || 'v4-embedded' }))
EmbeddedTasks(ts) ==
    [i \in 1..Len(ts) |->
        [id    |-> ts[i].id,
         title |-> getTaskTitle(ts[i]),
         type  |-> IF ts[i].type # Absent THEN ts[i].type ELSE "v4-embedded"]]

\* finalTasks before the synthetic merge; threw: a null embedded task was read.
FinalTasks(taskList, info) ==
    IF Len(taskList) > 0 THEN [threw |-> FALSE, list |-> taskList]
    ELSE IF info.tasks = NoList THEN [threw |-> FALSE, list |-> <<>>]
    ELSE IF HasNull(info.tasks[1]) THEN [threw |-> TRUE, list |-> <<>>]
    ELSE [threw |-> FALSE, list |-> EmbeddedTasks(info.tasks[1])]

\* The taskId of every answer, teams in order, each team's answers in order.
AnswerIds(resultsData) ==
    Flatten([t \in 1..Len(resultsData) |->
        [a \in 1..Len(resultsData[t].answers) |-> resultsData[t].answers[a].taskId]])

\* Mutant of Synthetic: existingIds.add(ans.taskId) is missing.
RECURSIVE SyntheticNoAdd(_, _)
SyntheticNoAdd(existingIds, ids) ==
    IF ids = <<>> THEN <<>>
    ELSE IF Head(ids) \in existingIds THEN SyntheticNoAdd(existingIds, Tail(ids))
    ELSE <<[id |-> Head(ids), title |-> Head(ids), type |-> "synthetic"]>>
            \o SyntheticNoAdd(existingIds, Tail(ids))

\* newSyntheticTasks: one entry per answer taskId not in existingIds, first seen first
RECURSIVE Synthetic(_, _)
Synthetic(existingIds, ids) ==
    IF ids = <<>> THEN <<>>
    ELSE IF Head(ids) \in existingIds THEN Synthetic(existingIds, Tail(ids))
    ELSE <<[id |-> Head(ids), title |-> Head(ids), type |-> "synthetic"]>>
            \o Synthetic(existingIds \cup {Head(ids)}, Tail(ids))

\* Mutant of Reconcile: the synthetic entries are put in front of the catalog.
ReconcileSyntheticFirst(finalTasks, resultsData) ==
    IF Len(resultsData) > 0
    THEN Synthetic({finalTasks[i].id : i \in 1..Len(finalTasks)}, AnswerIds(resultsData))
            \o finalTasks
    ELSE finalTasks

\* if (resultsData.length > 0) { ... finalTasks = [...finalTasks, ...newSyntheticTasks] }
Reconcile(finalTasks, resultsData) ==
    IF Len(resultsData) > 0
    THEN finalTasks \o Synthetic({finalTasks[i].id : i \in 1..Len(finalTasks)},
                                 AnswerIds(resultsData))
    ELSE finalTasks

\* Ghost of the poll order.  behind: how many of the calls that await their
\* results were made before a call whose results have been applied already
\* (they are the first ones of loads that are at that stage); late: the
\* results of such a call have been applied after those of the later call.
InOrder == [behind |-> 0, late |-> FALSE]

\* The ghost after the results of the i-th suspended call of q are applied.
TrackOrder(o, q, i) ==
    LET r == Cardinality({k \in 1..i : q[k].stage = "results"})
    IN  [behind |-> (IF r > o.behind THEN r ELSE o.behind) - 1,
         late   |-> o.late \/ r <= o.behind]

\* A loadData call suspended at await fetchGameResults(...).
Load(refresh) == [refresh |-> refresh, stage |-> "results", data |-> <<>>]

\* Suspended calls, those of dropped instances included.
InFlight == Len(loads) + stale

RemoveAt(q, i) == SubSeq(q, 1, i - 1) \o SubSeq(q, i + 1, Len(q))

ViewInit ==
    /\ mounted = FALSE
    /\ gameId = "none"
    /\ results = NoList
    /\ tasks = <<>>
    /\ gameName = Absent
    /\ isLoading = TRUE
    /\ error = Absent
    /\ viewMode = "ranking"
    /\ liveEvent = 0
    /\ totalAnswerCountRef = InitialRefs.total
    /\ isFirstLoadRef = InitialRefs.first
    /\ loads = <<>>
    /\ stale = 0
    /\ toastTimers = 0
    /\ nLoads = 0
    /\ nObs = 0
    /\ lastObs = NoObs
    /\ track = 0
    /\ emitted = <<>>
    /\ left = -1
    /\ order = InOrder

\* App renders <LoquizResults gameId={selectedGameId}> once currentView is
\* 'results': a fresh instance, whose effect calls loadData() at once.
Mount(g) ==
    /\ ~mounted
    /\ InFlight < MaxInFlight
    /\ mounted' = TRUE
    /\ gameId' = g
    /\ results' = NoList
    /\ tasks' = <<>>
    /\ gameName' = Absent
    /\ isLoading' = TRUE
    /\ error' = Absent
    /\ viewMode' = "ranking"
    /\ liveEvent' = 0
    /\ totalAnswerCountRef' = InitialRefs.total
    /\ isFirstLoadRef' = InitialRefs.first
    /\ loads' = <<Load(FALSE)>>
    /\ toastTimers' = 0
    /\ nLoads' = 1
    /\ nObs' = 0
    /\ lastObs' = NoObs
    /\ track' = 0
    /\ emitted' = <<>>
    /\ left' = IF g = gameId THEN -1 ELSE left
    /\ UNCHANGED <<stale, qvars, avars, rvars, pvars, gvars>>

\* onBack (every screen but the loading one has the button): the instance and
\* its state are dropped, the interval is cleared; its suspended loadData calls
\* stay in flight, but the setters and refs their continuations use are those
\* of the dropped instance.
Unmount ==
    /\ mounted
    /\ ~isLoading
    /\ mounted' = FALSE
    /\ results' = NoList
    /\ tasks' = <<>>
    /\ gameName' = Absent
    /\ isLoading' = TRUE
    /\ error' = Absent
    /\ viewMode' = "ranking"
    /\ liveEvent' = 0
    /\ totalAnswerCountRef' = InitialRefs.total
    /\ isFirstLoadRef' = InitialRefs.first
    /\ toastTimers' = 0
    /\ nLoads' = 0
    /\ nObs' = 0
    /\ lastObs' = NoObs
    /\ track' = 0
    /\ emitted' = <<>>
    /\ loads' = <<>>
    /\ stale' = stale + Len(loads)
    /\ left' = totalAnswerCountRef
    /\ UNCHANGED <<gameId, qvars, avars, rvars, pvars, gvars>>

\* setInterval(() => loadData(true), 15000) fires.
Tick ==
    /\ mounted
    /\ nLoads < MaxLoads
    /\ InFlight < MaxInFlight
    /\ loads' = Append(loads, Load(TRUE))
    /\ nLoads' = nLoads + 1
    /\ UNCHANGED <<mounted, stale, left, gameId, results, tasks, gameName, isLoading, error,
                   viewMode, liveEvent, totalAnswerCountRef, isFirstLoadRef, toastTimers,
                   nObs, lastObs, track, emitted, qvars, avars, rvars, pvars, gvars>>

\* onClick={() => loadData(true)}: the refresh buttons, rendered once the
\* spinner and the error panel are gone.
ManualRefresh ==
    /\ mounted
    /\ ~isLoading
    /\ error = Absent
    /\ nLoads < MaxLoads
    /\ InFlight < MaxInFlight
    /\ loads' = Append(loads, Load(TRUE))
    /\ nLoads' = nLoads + 1
    /\ UNCHANGED <<mounted, stale, left, gameId, results, tasks, gameName, isLoading, error,
                   viewMode, liveEvent, totalAnswerCountRef, isFirstLoadRef, toastTimers,
                   nObs, lastObs, track, emitted, qvars, avars, rvars, pvars, gvars>>

\* The TaskMaster / Ranking button: viewMode is a dependency of loadData, so
\* the effect runs again and calls loadData() with the new viewMode.
ToggleViewMode ==
    /\ mounted
    /\ ~isLoading
    /\ error = Absent
    /\ results # NoList
    /\ results[1] # <<>>
    /\ nLoads < MaxLoads
    /\ InFlight < MaxInFlight
    /\ viewMode' = IF viewMode = "ranking" THEN "taskmaster" ELSE "ranking"
    /\ isLoading' = (viewMode' = "ranking")
    /\ loads' = Append(loads, Load(FALSE))
    /\ nLoads' = nLoads + 1
    /\ UNCHANGED <<mounted, stale, left, gameId, results, tasks, gameName, error, liveEvent,
                   totalAnswerCountRef, isFirstLoadRef, toastTimers, nObs, lastObs, track, emitted,
                   qvars, avars, rvars, pvars, gvars>>

\* "Retry Connection": setError(null); loadData()
Retry ==
    /\ mounted
    /\ ~isLoading
    /\ error # Absent
    /\ nLoads < MaxLoads
    /\ InFlight < MaxInFlight
    /\ error' = Absent
    /\ isLoading' = (viewMode = "ranking")
    /\ loads' = Append(loads, Load(FALSE))
    /\ nLoads' = nLoads + 1
    /\ UNCHANGED <<mounted, stale, left, gameId, results, tasks, gameName, viewMode, liveEvent,
                   totalAnswerCountRef, isFirstLoadRef, toastTimers, nObs, lastObs, track, emitted,
                   qvars, avars, rvars, pvars, gvars>>

\* await fetchGameResults(...) resumes in the i-th suspended loadData call:
\* setResults, the live-event tracking, and for a refresh the end of the call.
ResolveResults(i) ==
    /\ mounted
    /\ i \in 1..Len(loads)
    /\ loads[i].stage = "results"
    /\ \E r \in ResultsReturns :
         LET l == loads[i]
             total == TotalAnswers(r.val)
             notify == ShouldNotify(isFirstLoadRef, totalAnswerCountRef, total)
         IN  /\ loads' = IF l.refresh THEN RemoveAt(loads, i)
                         ELSE [loads EXCEPT ![i] = [@ EXCEPT !.stage = "meta", !.data = r.val]]
             /\ results' = Some(r.val)
             /\ liveEvent' = IF notify THEN total - totalAnswerCountRef ELSE liveEvent
             /\ toastTimers' = IF notify THEN toastTimers + 1 ELSE toastTimers
             /\ totalAnswerCountRef' = total
             /\ isFirstLoadRef' = FALSE
             /\ nObs' = nObs + 1
             /\ lastObs' = [total |-> total, how |-> r.how, refresh |-> l.refresh]
             /\ track' = IF track = nObs /\ nObs < Len(Scenario) /\ total = Scenario[nObs + 1]
                         THEN nObs + 1 ELSE -1
             /\ emitted' = IF notify
                           THEN Append(emitted, [at |-> nObs + 1,
                                                 delta |-> total - totalAnswerCountRef])
                           ELSE emitted
    /\ UNCHANGED <<mounted, stale, left, gameId, tasks, gameName, isLoading, error,
                   viewMode, nLoads, qvars, avars, rvars, pvars>>

\* Mutant of ResolveMeta: setIsLoading(false) stands at the end of the try
\* block, not in finally.
ResolveMetaNoFinally(i) ==
    /\ mounted
    /\ i \in 1..Len(loads)
    /\ loads[i].stage = "meta"
    /\ \E info \in InfoReturns, taskList \in TasksReturns :
         LET l == loads[i]
             ft == FinalTasks(taskList, info)
         IN  /\ loads' = RemoveAt(loads, i)
             /\ gameName' = info.name
             /\ tasks' = IF ft.threw THEN tasks ELSE Reconcile(ft.list, l.data)
             /\ error' = IF ft.threw THEN "TypeError" ELSE error
             /\ isLoading' = IF ft.threw THEN isLoading ELSE FALSE
    /\ UNCHANGED <<mounted, stale, left, gameId, results, viewMode, liveEvent,
                   totalAnswerCountRef, isFirstLoadRef, toastTimers, nLoads, nObs, lastObs,
                   track, emitted, qvars, avars, rvars, pvars, gvars>>

\* await Promise.all([fetchGameInfo, fetchGameTasks]) resumes in the i-th
\* suspended loadData call: name, task merge, catch and finally.
ResolveMeta(i) ==
    /\ mounted
    /\ i \in 1..Len(loads)
    /\ loads[i].stage = "meta"
    /\ \E info \in InfoReturns, taskList \in TasksReturns :
         LET l == loads[i]
             ft == FinalTasks(taskList, info)
         IN  /\ loads' = RemoveAt(loads, i)
             /\ gameName' = info.name
             /\ tasks' = IF ft.threw THEN tasks ELSE Reconcile(ft.list, l.data)
             /\ error' = IF ft.threw THEN "TypeError" ELSE error
             /\ isLoading' = FALSE
    /\ UNCHANGED <<mounted, stale, left, gameId, results, viewMode, liveEvent,
                   totalAnswerCountRef, isFirstLoadRef, toastTimers, nLoads, nObs, lastObs,
                   track, emitted, qvars, avars, rvars, pvars, gvars>>

\* A suspended loadData call of a dropped instance runs to its end: what it
\* sets is the state of that instance, which nothing renders any more.
StaleResume ==
    /\ stale > 0
    /\ stale' = stale - 1
    /\ UNCHANGED <<mounted, left, gameId, results, tasks, gameName, isLoading, error,
                   viewMode, liveEvent, totalAnswerCountRef, isFirstLoadRef, loads,
                   toastTimers, nLoads, nObs, lastObs, track, emitted, qvars, avars, rvars, pvars, gvars>>

\* Mutant of ToastExpire: the timer fires without clearing the notification.
ToastExpireKeepsToast ==
    /\ mounted
    /\ toastTimers > 0
    /\ toastTimers' = toastTimers - 1
    /\ UNCHANGED <<mounted, stale, left, gameId, results, tasks, gameName, isLoading, error,
                   viewMode, liveEvent, totalAnswerCountRef, isFirstLoadRef, loads, nLoads,
                   nObs, lastObs, track, emitted, qvars, avars, rvars, pvars, gvars>>

\* setTimeout(() => setLiveEvent(null), 4000) fires.
ToastExpire ==
    /\ mounted
    /\ toastTimers > 0
    /\ liveEvent' = 0
    /\ toastTimers' = toastTimers - 1
    /\ UNCHANGED <<mounted, stale, left, gameId, results, tasks, gameName, isLoading, error,
                   viewMode, totalAnswerCountRef, isFirstLoadRef, loads, nLoads, nObs, lastObs,
                   track, emitted, qvars, avars, rvars, pvars, gvars>>

----------------------------------------------------------------------------
(* App (App.tsx): the game selection and the data preloaded for the sub-views *)

MaxPreloads == 2    \* loadGameData calls suspended at the same time

\* fetchGamePhotos: a deduplicated list, or a rejection (a null media record).
PhotosReturns ==
    {PhotosFinish(<<>>, <<>>), PhotosFinish(MediaData(1), <<>>),
     PhotosFinish(<<NullRec>>, <<>>)}

\* info.tasks.map(t => ({ id: t.id, title: t.title || t.name || t.id, ... }));
\* the raw task records carry no name field.
AppEmbeddedTasks(ts) ==
    [i \in 1..Len(ts) |->
        [id    |-> ts[i].id,
         title |-> IF ts[i].title # Absent THEN ts[i].title ELSE ts[i].id,
         type  |-> IF ts[i].type # Absent THEN ts[i].type ELSE "v4-embedded"]]

\* finalTasks of loadGameData; threw: a null embedded task was read.
AppFinalTasks(taskList, info) ==
    IF Len(taskList) > 0 THEN [threw |-> FALSE, list |-> taskList]
    ELSE IF info.tasks = NoList THEN [threw |-> FALSE, list |-> <<>>]
    ELSE IF HasNull(info.tasks[1]) THEN [threw |-> TRUE, list |-> <<>>]
    ELSE [threw |-> FALSE, list |-> AppEmbeddedTasks(info.tasks[1])]

AppInit ==
    /\ selectedGameId = "none"
    /\ currentView = "lobby"
    /\ appResults = <<>>
    /\ appTasks = <<>>
    /\ appPhotos = <<>>
    /\ appGameName = Absent
    /\ dataLoaded = FALSE
    /\ preloads = <<>>
    /\ writer = "none"

\* GameListPage onGameSelect, and the preload effect its state change runs:
\* setDataLoaded(false); loadGameData(selectedGameId, apiKey)
viewResults(g) ==
    /\ currentView = "lobby"
    /\ Len(preloads) < MaxPreloads
    /\ selectedGameId' = g
    /\ currentView' = "dashboard"
    /\ dataLoaded' = FALSE
    /\ preloads' = Append(preloads, [gameId |-> g])
    /\ UNCHANGED <<appResults, appTasks, appPhotos, appGameName, writer, qvars, vvars,
                   rvars, pvars, gvars>>

\* SessionDashboard onBack
goBackToLobby ==
    /\ currentView = "dashboard"
    /\ selectedGameId' = "none"
    /\ appResults' = <<>>
    /\ appTasks' = <<>>
    /\ appPhotos' = <<>>
    /\ appGameName' = Absent
    /\ dataLoaded' = FALSE
    /\ currentView' = "lobby"
    /\ writer' = "none"
    /\ UNCHANGED <<preloads, qvars, vvars, rvars, pvars, gvars>>

\* SessionDashboard onNavigate
handleNavigate(view) ==
    /\ currentView = "dashboard"
    /\ currentView' = view
    /\ UNCHANGED <<selectedGameId, appResults, appTasks, appPhotos, appGameName,
                   dataLoaded, preloads, writer, qvars, vvars, rvars, pvars, gvars>>

\* onBack / onClose / BackButton of the sub-views
goBackToDashboard ==
    /\ currentView \in {"results", "showtime", "taskmaster", "admin"}
    /\ currentView' = "dashboard"
    /\ UNCHANGED <<selectedGameId, appResults, appTasks, appPhotos, appGameName,
                   dataLoaded, preloads, writer, qvars, vvars, rvars, pvars, gvars>>

\* await Promise.all([...]) resumes in the i-th suspended loadGameData call:
\* the setters run whatever game is selected by now; a rejection (only
\* fetchGamePhotos can reject) or a null embedded task ends in the catch.
PreloadResolve(i) ==
    /\ i \in 1..Len(preloads)
    /\ \E r \in ResultsReturns, taskList \in TasksReturns, info \in InfoReturns,
          ph \in PhotosReturns :
         LET ft == AppFinalTasks(taskList, info)
         IN  /\ preloads' = RemoveAt(preloads, i)
             /\ writer' = preloads[i].gameId
             /\ dataLoaded' = TRUE
             /\ IF ph.kind = "threw"
                THEN UNCHANGED <<appResults, appPhotos, appGameName, appTasks>>
                ELSE /\ appResults' = r.val
                     /\ appPhotos' = ph.val
                     /\ appGameName' = info.name
                     /\ appTasks' = IF ft.threw THEN appTasks ELSE ft.list
    /\ UNCHANGED <<selectedGameId, currentView, qvars, vvars, rvars, pvars, gvars>>

----------------------------------------------------------------------------
(* The task merge of loadData as a function of its two inputs *)

MaxCatalog == 2     \* entries of a drawn catalog
MaxAnswers == 2     \* answers of a drawn team

MergeIds == {"t1", "t2", "t3"}

IdSeqs(n) == UNION {[1..k -> MergeIds] : k \in 0..n}

\* Catalogs as fetchGameTasks returns them; ids are the unique key of a task.
Catalogs ==
    {mapApiTasksToGameTasks([i \in 1..Len(q) |-> RawTask(q[i], "Title")]) :
        q \in {x \in IdSeqs(MaxCatalog) : \A i, j \in 1..Len(x) : x[i] = x[j] => i = j}}

\* Snapshots as fetchGameResults returns them: no team, or two teams.
Snapshots ==
    {<<>>} \cup
    {fetchGameResults(Ok200(<<RawTeam("Red", 20, 0, [i \in 1..Len(a) |-> RawAnswer(a[i], Absent, Absent)]),
                              RawTeam("Blue", 10, 0, [i \in 1..Len(b) |-> RawAnswer(b[i], Absent, Absent)])>>)).val :
        a \in IdSeqs(MaxAnswers), b \in IdSeqs(MaxAnswers)}

MergeIdle ==
    /\ inTasks = <<>>
    /\ inResults = <<>>
    /\ merged = NoList

MergeDraw ==
    /\ inTasks \in Catalogs
    /\ inResults \in Snapshots
    /\ merged = NoList

\* Lines 75-93 of loadData on the drawn inputs.
ApplyReconcile ==
    /\ merged = NoList
    /\ merged' = Some(Reconcile(inTasks, inResults))
    /\ UNCHANGED <<inTasks, inResults, qvars, vvars, avars, pvars, gvars>>

----------------------------------------------------------------------------
(* Pure helpers of the service, each applied once to a drawn argument.  A  *)
(* string is the sequence of its characters.                               *)

PureIdle ==
    /\ arg = <<>>
    /\ res = NoList

Whitespace == {" ", "\t"}

\* String.prototype.trim
RECURSIVE TrimStart(_)
TrimStart(s) == IF s # <<>> /\ Head(s) \in Whitespace THEN TrimStart(Tail(s)) ELSE s

RECURSIVE TrimEnd(_)
TrimEnd(s) ==
    IF s # <<>> /\ s[Len(s)] \in Whitespace THEN TrimEnd(SubSeq(s, 1, Len(s) - 1)) ELSE s

Trim(s) == TrimEnd(TrimStart(s))

\* String.prototype.toLowerCase, on the characters the credentials use
LowerChar(c) ==
    CASE c = "A" -> "a" [] c = "P" -> "p" [] c = "I" -> "i" [] c = "K" -> "k"
      [] c = "E" -> "e" [] c = "Y" -> "y" [] c = "V" -> "v" [] OTHER -> c

toLowerCase(s) == [i \in 1..Len(s) |-> LowerChar(s[i])]

\* String.prototype.startsWith
startsWith(s, t) == Len(s) >= Len(t) /\ SubSeq(s, 1, Len(t)) = t

\* s.substring(n), n counted from 0
substring(s, n) == IF n >= Len(s) THEN <<>> ELSE SubSeq(s, n + 1, Len(s))

\* 'apikey-v1'
SchemeLower == <<"a", "p", "i", "k", "e", "y", "-", "v", "1">>

\* The literal text in front of the key in the Authorization header.
SchemeHeader == <<"A", "p", "i", "K", "e", "y", "-", "v", "1", " ">>
BearerHeader == <<"B", "e", "a", "r", "e", "r", " ">>

\* getAuthHeaders(apiKey)['Authorization']
getAuthHeaders(apiKey) ==
    LET trimmed == Trim(apiKey)
        cleanKey == IF startsWith(toLowerCase(trimmed), SchemeLower)
                    THEN Trim(substring(trimmed, 9))
                    ELSE trimmed
    IN  SchemeHeader \o cleanKey

\* Credentials: optional padding, an optional scheme token in some spelling,
\* an optional gap, a token, optional padding.
Paddings == {<<>>, <<" ">>, <<"\t", " ">>}

Prefixes ==
    {<<>>,
     <<"A", "p", "i", "K", "e", "y", "-", "v", "1">>,
     <<"a", "p", "i", "k", "e", "y", "-", "v", "1">>,
     <<"A", "P", "I", "K", "E", "Y", "-", "V", "1">>,
     <<"A", "p", "i", "K", "e", "y", "-", "v">>,
     <<"B", "e", "a", "r", "e", "r">>}

Tokens == {<<>>, <<"k">>, <<"a", "b", "c">>, <<"a", " ", "1">>}

Credentials ==
    {a \o p \o g \o t \o b :
        a \in Paddings, p \in Prefixes, g \in {<<>>, <<" ">>}, t \in Tokens, b \in Paddings}

AuthDraw ==
    /\ arg \in Credentials
    /\ res = NoList

\* getAuthHeaders(apiKey) is called.
ApplyAuth ==
    /\ res = NoList
    /\ res' = Some(getAuthHeaders(arg))
    /\ UNCHANGED <<arg, qvars, vvars, avars, rvars, gvars>>

\* JSON values of a response body, as far as the envelope expression looks at
\* them.  A leaf is what a data / items field can hold; "undefined" is a
\* missing field.
Leaf(k, n, s, a) == [kind |-> k, num |-> n, str |-> s, arr |-> a]

JUndefined == Leaf("undefined", 0, "", <<>>)
JNull      == Leaf("null", 0, "", <<>>)
JNum(n)    == Leaf("number", n, "", <<>>)
JStr(s)    == Leaf("string", 0, s, <<>>)
JObject    == Leaf("object", 0, "", <<>>)
JArray(a)  == Leaf("array", 0, "", a)

\* JavaScript truthiness, the left operand test of ||
Truthy(v) ==
    CASE v.kind \in {"undefined", "null"} -> FALSE
      [] v.kind = "number" -> v.num # 0
      [] v.kind = "string" -> v.str # ""
      [] OTHER -> TRUE

\* Array.isArray
IsArray(v) == v.kind = "array"

\* A parsed body: a leaf value with the data and items fields an object has.
Json(v, d, i) == [val |-> v, data |-> d, items |-> i]

\* json.data, json.items: a property of a primitive is undefined
Field(json, name) ==
    IF json.val.kind = "object"
    THEN IF name = "data" THEN json.data ELSE json.items
    ELSE JUndefined

\* Array.isArray(json) ? json : (json.data || json.items || [])   (dataFirst)
\* Array.isArray(json) ? json : (json.items || json.data || [])   (~dataFirst)
\* on every body response.json() can resolve with; threw: a property of null
\* was read.
UnwrapJson(json, dataFirst) ==
    IF IsArray(json.val) THEN [threw |-> FALSE, value |-> json.val]
    ELSE IF json.val.kind = "null" THEN [threw |-> TRUE, value |-> JUndefined]
    ELSE LET first  == Field(json, IF dataFirst THEN "data" ELSE "items")
             second == Field(json, IF dataFirst THEN "items" ELSE "data")
         IN  [threw |-> FALSE,
              value |-> IF Truthy(first) THEN first
                        ELSE IF Truthy(second) THEN second ELSE JArray(<<>>)]

\* Field values and bodies the envelope expression is applied to.
FieldValues ==
    {JUndefined, JNull, JNum(0), JNum(5), JStr(""), JStr("x"), JObject,
     JArray(<<>>), JArray(<<"r1">>), JArray(<<"r2", "r3">>)}

JsonBodies ==
    {Json(v, JUndefined, JUndefined) : v \in FieldValues \ {JUndefined, JObject}}
      \cup {Json(JObject, d, i) : d \in FieldValues, i \in FieldValues}

UnwrapDraw ==
    /\ arg \in [json : JsonBodies, dataFirst : BOOLEAN]
    /\ res = NoList

\* The envelope expression is evaluated on the parsed body.
ApplyUnwrap ==
    /\ res = NoList
    /\ res' = Some(UnwrapJson(arg.json, arg.dataFirst))
    /\ UNCHANGED <<arg, qvars, vvars, avars, rvars, gvars>>

\* Values found in the fields of a raw task: rich text is a string, an object
\* with text / content / title, or an array of such values.
TUndefined == [kind |-> "undefined"]
TNumber    == [kind |-> "number"]
TString(s) == [kind |-> "string", str |-> s]
TObject(tx, c, ttl) == [kind |-> "object", text |-> tx, content |-> c, title |-> ttl]
TArray(l)  == [kind |-> "array", items |-> l]

\* !val is false
TTruthy(v) ==
    CASE v.kind = "undefined" -> FALSE
      [] v.kind = "string" -> v.str # <<>>
      [] OTHER -> TRUE

\* a || b
OrElse(a, b) == IF TTruthy(a) THEN a ELSE b

\* val.replace(/<[^>]*>/g, ''): every "<" that has a ">" after it is removed
\* together with everything up to the first such ">".
RECURSIVE StripTags(_)
StripTags(s) ==
    IF s = <<>> THEN <<>>
    ELSE IF Head(s) = "<" /\ \E j \in 2..Len(s) : s[j] = ">"
         THEN LET j == CHOOSE k \in 2..Len(s) :
                           s[k] = ">" /\ \A m \in 2..(k - 1) : s[m] # ">"
              IN  StripTags(SubSeq(s, j + 1, Len(s)))
         ELSE <<Head(s)>> \o StripTags(Tail(s))

\* Mutant of Join: the parts are put together with no separator.
RECURSIVE JoinNoSeparator(_)
JoinNoSeparator(parts) ==
    IF parts = <<>> THEN <<>>
    ELSE parts[1] \o JoinNoSeparator(Tail(parts))

\* parts.join(' ')
RECURSIVE Join(_)
Join(parts) ==
    IF parts = <<>> THEN <<>>
    ELSE IF Len(parts) = 1 THEN parts[1]
    ELSE parts[1] \o <<" ">> \o Join(Tail(parts))

\* A result of extract that is a non-empty string (Boolean(x), x || ...)
Extracted(x) == x # NoList /\ x[1] # <<>>

\* const extract = (val: any): string | null; null is NoList
RECURSIVE extract(_)
extract(val) ==
    IF ~TTruthy(val) THEN NoList
    ELSE IF val.kind = "string" THEN Some(Trim(StripTags(val.str)))
    ELSE IF val.kind = "object"
         THEN IF TTruthy(val.text) THEN extract(val.text)
              ELSE IF val.content.kind = "array"
                   THEN LET all  == [i \in 1..Len(val.content.items) |->
                                        extract(val.content.items[i])]
                            kept == SelectSeq(all, Extracted)
                        IN  Some(Join([i \in 1..Len(kept) |-> kept[i][1]]))
              ELSE IF TTruthy(val.title) THEN extract(val.title)
              ELSE NoList
    ELSE NoList

\* A raw task as getTaskTitle reads it (comments stands for comments?.shortIntro).
TaskNode(si, ssi, csi, c, i, tx, q, ttl, ident) ==
    [kind |-> "task", shortIntro |-> si, short_intro |-> ssi, comments |-> csi,
     content |-> c, intro |-> i, text |-> tx, question |-> q, title |-> ttl,
     id |-> ident]

UnknownTask == <<"U", "n", "k", "n", "o", "w", "n", " ", "t", "a", "s", "k">>

\* Mutant of TaskTitle: the first field that extracts to a string wins, even
\* when the string is empty.
TaskTitleFirstString(t) ==
    IF t.kind = "undefined" THEN UnknownTask
    ELSE LET short == OrElse(t.shortIntro, OrElse(t.short_intro, t.comments))
         IN  IF extract(short) # NoList THEN extract(short)[1]
             ELSE IF TTruthy(t.id) THEN t.id.str ELSE UnknownTask

\* getTaskTitle on a raw task with rich-text fields
TaskTitle(t) ==
    IF t.kind = "undefined" THEN UnknownTask
    ELSE LET short == OrElse(t.shortIntro, OrElse(t.short_intro, t.comments))
             content == t.content
             intro == OrElse(t.intro, OrElse(t.text, OrElse(t.question, t.title)))
         IN  IF Extracted(extract(short)) THEN extract(short)[1]
             ELSE IF Extracted(extract(content)) THEN extract(content)[1]
             ELSE IF Extracted(extract(intro)) THEN extract(intro)[1]
             ELSE IF TTruthy(t.id) THEN t.id.str
             ELSE UnknownTask

\* Rich-text values and raw tasks the title helper is applied to.
Markup == TString(<<"<", "b", ">", " ">>)

RichValues ==
    {TUndefined, TNumber, TString(<<>>), TString(<<"a">>), Markup,
     TString(<<" ", "<", "i", ">", "x", "<">>),
     TObject(TString(<<"y">>), TUndefined, TString(<<"n">>)),
     TObject(TUndefined, TUndefined, Markup),
     TObject(TUndefined, TArray(<<Markup, TString(<<"p">>), TUndefined,
                                  TObject(TUndefined, TUndefined, TString(<<"q">>))>>),
             TString(<<"n">>)),
     TObject(TUndefined, TArray(<<Markup>>), TString(<<"n">>)),
     TArray(<<TString(<<"z">>)>>)}

TaskNodes ==
    {TUndefined} \cup
    {TaskNode(si, ssi, csi, c, i, tx, q, ttl, ident) :
        si \in RichValues,
        ssi \in {TUndefined, TString(<<"b">>)},
        csi \in {TUndefined, Markup},
        c \in RichValues,
        i \in {TUndefined, TString(<<"i">>)},
        tx \in {TUndefined, Markup},
        q \in {TUndefined},
        ttl \in {TUndefined, TString(<<>>), TString(<<"t">>)},
        ident \in {TUndefined, TString(<<>>), TString(<<"t", "1">>)}}

TitleDraw ==
    /\ arg \in TaskNodes
    /\ res = NoList

\* getTaskTitle(task), the first and any later call on the same task
ApplyTitle ==
    /\ res' = Some(TaskTitle(arg))
    /\ UNCHANGED <<arg, qvars, vvars, avars, rvars, gvars>>

----------------------------------------------------------------------------
(* Specifications *)

Init == QueryInit /\ ViewInit /\ AppInit /\ MergeIdle /\ PureIdle

CallQuery == \E o \in Ops, key \in ApiKeys : Call(o, key)

SettleQuery == Settle(TRUE)

Next == CallQuery \/ SettleQuery

\* One logical query (tasks, results, info or games), request by request.
Spec == Init /\ [][Next]_vars

\* One logical query in which every fetch settles.
SpecSettling == Init /\ [][Next]_vars /\ WF_vars(SettleQuery)

CallPhotos == \E key \in ApiKeys \ {"GUEST"} : Call("photos", key)

SettlePhotos == Settle(FALSE)

NextPhotos == CallPhotos \/ SettlePhotos

\* fetchGamePhotos, request by request (the request log is not kept).
SpecPhotos == Init /\ [][NextPhotos]_vars

NextSilent == CallQuery \/ SettleQuery \/ Silence

\* One logical query whose transports may stay silent; a fetch that settles is
\* resumed.
SpecSilent == Init /\ [][NextSilent]_vars /\ WF_vars(SettleQuery)

SettleLogged == op # "photos" /\ Settle(TRUE)

SettleUnlogged == op = "photos" /\ Settle(FALSE)

NextQueries == CallQuery \/ CallPhotos \/ SettleLogged \/ SettleUnlogged

\* One logical query of any of the five operations (the request log is kept
\* for all but fetchGamePhotos).
SpecQueries == Init /\ [][NextQueries]_vars

MountAny == \E g \in GameIds : Mount(g)

ResolveResultsAny == \E i \in 1..Len(loads) : ResolveResults(i) /\ UNCHANGED gvars

ResolveResultsTracked ==
    \E i \in 1..Len(loads) : ResolveResults(i) /\ order' = TrackOrder(order, loads, i)

ResolveMetaAny == \E i \in 1..Len(loads) : ResolveMeta(i)

NextView ==
    \/ MountAny
    \/ Unmount
    \/ Tick
    \/ ManualRefresh
    \/ ToggleViewMode
    \/ Retry
    \/ ResolveResultsAny
    \/ ResolveMetaAny
    \/ StaleResume

\* The results view: mounting, polling, user actions, responses.
SpecView == Init /\ [][NextView]_vars

NextToast ==
    \/ MountAny
    \/ Tick
    \/ ManualRefresh
    \/ ResolveResultsAny
    \/ ResolveMetaAny
    \/ ToastExpire

NextOrder ==
    \/ MountAny
    \/ Tick
    \/ ManualRefresh
    \/ ToggleViewMode
    \/ Retry
    \/ ResolveResultsTracked
    \/ ResolveMetaAny

\* One open results view with the order of its polls tracked.
SpecOrder == Init /\ [][NextOrder]_vars

\* One open results view with its polls and toast timers: a pending timer
\* fires in the end.
SpecToast == Init /\ [][NextToast]_vars /\ WF_vars(ToastExpire)

viewResultsAny == \E g \in GameIds : viewResults(g)

handleNavigateAny ==
    \E view \in {"results", "showtime", "taskmaster", "admin"} : handleNavigate(view)

PreloadResolveAny == \E i \in 1..Len(preloads) : PreloadResolve(i)

NextApp ==
    \/ viewResultsAny
    \/ goBackToLobby
    \/ handleNavigateAny
    \/ goBackToDashboard
    \/ PreloadResolveAny

\* App: selecting a game, navigating, leaving, preload responses.
SpecApp == Init /\ [][NextApp]_vars

InitReconcile == QueryInit /\ ViewInit /\ AppInit /\ MergeDraw /\ PureIdle

NextReconcile == ApplyReconcile

\* The task merge applied once to every drawn catalog and snapshot.
SpecReconcile == InitReconcile /\ [][NextReconcile]_vars

InitAuth == QueryInit /\ ViewInit /\ AppInit /\ MergeIdle /\ AuthDraw

NextAuth == ApplyAuth

\* getAuthHeaders applied once to every drawn credential.
SpecAuth == InitAuth /\ [][NextAuth]_vars

InitUnwrap == QueryInit /\ ViewInit /\ AppInit /\ MergeIdle /\ UnwrapDraw

NextUnwrap == ApplyUnwrap

\* The envelope expression of the fetch operations applied to one parsed body.
SpecUnwrap == InitUnwrap /\ [][NextUnwrap]_vars

InitTitle == QueryInit /\ ViewInit /\ AppInit /\ MergeIdle /\ TitleDraw

NextTitle == ApplyTitle

\* getTaskTitle applied, once or repeatedly, to one raw task.
SpecTitle == InitTitle /\ [][NextTitle]_vars

----------------------------------------------------------------------------
(* Claims about the sequencer *)

LogIdx == 1..Len(reqLog)

C2_Scenario ==
    /\ op = "tasks"
    /\ pc = "done"
    /\ Len(reqLog) = Len(PROXIES) + 2
    /\ \A i \in 1..Len(PROXIES) : reqLog[i] = [c |-> 1, p |-> i, st |-> 500, n |-> -1]
    /\ LET r2 == reqLog[Len(PROXIES) + 1]
           r3 == reqLog[Len(PROXIES) + 2]
       IN  /\ r2.c = 2 /\ IsOk(r2.st) /\ r2.n = 0
           /\ r3.c = 3 /\ IsOk(r3.st) /\ r3.n > 0

\* C2: in that scenario the tasks query returns exactly C3's records; in every
\* query the candidates are requested in list order, each only after the earlier
\* one was given up (the log never goes back to an earlier candidate, never
\* skips one, and starts every candidate at the first transport); and a tasks
\* candidate that failed with 500 on the last transport, or answered 2xx with an
\* empty collection, is followed by a request to the next candidate.
C2_FallbackOrder ==
    /\ C2_Scenario =>
         /\ Len(ret.val) = Len(TaskData(3))
         /\ \A i \in 1..Len(ret.val) : ret.val[i].id = TaskData(3)[i].id
    /\ \A i \in LogIdx :
         /\ i = 1 => reqLog[i].c = 1 /\ reqLog[i].p = 1
         /\ i > 1 => \/ reqLog[i].c = reqLog[i-1].c /\ reqLog[i].p = reqLog[i-1].p + 1
                     \/ reqLog[i].c = reqLog[i-1].c + 1 /\ reqLog[i].p = 1
    /\ reqLog # <<>> =>
         LET l == reqLog[Len(reqLog)]
         IN  /\ pc = "wait" => \/ cand = l.c /\ proxy = l.p + 1
                               \/ cand = l.c + 1 /\ proxy = 1
             /\ (/\ op = "tasks"
                 /\ l.c < NumCandidates(op)
                 /\ \/ l.st = 500 /\ l.p = Len(PROXIES)
                    \/ IsOk(l.st) /\ l.n = 0)
                  => pc = "wait" /\ cand = l.c + 1 /\ proxy = 1

C2_Witness == C2_Scenario

\* C9 (as stated): the soft operations settle with a collection, never with an
\* error, whatever the transports answer.
C9_SoftOperationsNeverThrow ==
    (pc = "done" /\ op \in {"tasks", "photos", "games"}) => ret.kind = "value"

----------------------------------------------------------------------------
(* Claims about the results view, the App preload and the task merge *)

\* Suspended loadData calls of the rendered instance that await the results.
ResultsPolls == {i \in 1..Len(loads) : loads[i].stage = "results"}

\* C3: while a results view is mounted, at most one of its results polls is
\* outstanding: a tick or manual refresh that arrives while a poll is still
\* outstanding issues no new request.
C3_SinglePollInFlight == mounted => Cardinality(ResultsPolls) <= 1

\* C4: the results, tasks, photos, game name and dataLoaded flag held by App
\* are never written by a loadGameData call made for a game other than the one
\* selected now (no selection after returning to the lobby).
C4_StaleResponseDropped == writer # "none" => writer = selectedGameId

\* The answers of a snapshot, counted one by one.
AnswerCount(teams) ==
    Cardinality(UNION {{<<t, a>> : a \in 1..Len(teams[t].answers)} : t \in 1..Len(teams)})

\* C5: an observation raises a notification exactly when it is not the first
\* of the instance and its answer count exceeds that of the snapshot observed
\* before it; the delta is the difference; and the totals 5, 5, 8, 8 raise one
\* notification, on the third observation, with delta 3.
C5_NotifyIffIncrease ==
    /\ [][nObs' = nObs + 1 =>
            LET total == AnswerCount(results'[1])
                stored == IF nObs = 0 THEN 0 ELSE AnswerCount(results[1])
            IN  IF nObs > 0 /\ total > stored
                THEN /\ emitted' = Append(emitted, [at |-> nObs + 1, delta |-> total - stored])
                     /\ liveEvent' = total - stored
                ELSE /\ emitted' = emitted
                     /\ liveEvent' = liveEvent]_vars
    /\ [](track = Len(Scenario) => emitted = <<[at |-> 3, delta |-> 3]>>)

C5_Witness == nObs = 4 /\ track = Len(Scenario) /\ emitted = <<[at |-> 3, delta |-> 3]>>

\* C6: a results view opened for another game starts from Baseline (stored
\* total 0, first-observation flag set), so the first snapshot it observes
\* raises no notification, whatever its answer count and whatever total the
\* view of the previous game had stored.
C6_GameChangeResetsTracker ==
    /\ [][(~mounted /\ mounted') =>
            (totalAnswerCountRef' = 0 /\ isFirstLoadRef' = TRUE)]_vars
    /\ [](nObs = 1 => emitted = <<>> /\ liveEvent = 0)

C6_Witness ==
    /\ mounted
    /\ nObs = 1
    /\ left = 5
    /\ lastObs.total = 8
    /\ totalAnswerCountRef = 8
    /\ emitted = <<>>

\* C7: a refresh poll that failed on every candidate and transport, arriving
\* while a non-empty snapshot is displayed, leaves the displayed results as
\* they were.
C7_FailedRefreshKeepsData ==
    [][(/\ nObs' = nObs + 1
        /\ lastObs'.refresh
        /\ lastObs'.how = "failed"
        /\ results # NoList
        /\ results[1] # <<>>) => results' = results]_vars

\* C8: once the initial load of a view has settled, its error state is set
\* exactly when the results query failed on every candidate and transport.
C8_ErrorIffAllFailed ==
    (mounted /\ nLoads = 1 /\ nObs = 1 /\ loads = <<>>)
        => (error # Absent <=> lastObs.how = "failed")

\* C10: the merged catalog has an entry for the taskId of every answer of the
\* snapshot, and no two of its entries have the same id.
C10_MergeCoversAnswersOnce ==
    merged # NoList =>
        LET out == merged[1]
        IN  /\ \A t \in 1..Len(inResults) : \A a \in 1..Len(inResults[t].answers) :
                  \E i \in 1..Len(out) : out[i].id = inResults[t].answers[a].taskId
            /\ \A i, j \in 1..Len(out) : out[i].id = out[j].id => i = j

\* Both teams answered a task the catalog lacks, one also a task it has.
C10_Witness ==
    /\ merged # NoList
    /\ Len(inTasks) = 2
    /\ Len(inResults) = 2
    /\ Len(inResults[1].answers) = 2
    /\ Len(inResults[2].answers) = 1
    /\ inResults[1].answers[1].taskId \notin {inTasks[i].id : i \in 1..Len(inTasks)}
    /\ inResults[2].answers[1].taskId = inResults[1].answers[1].taskId
    /\ inResults[1].answers[2].taskId \in {inTasks[i].id : i \in 1..Len(inTasks)}
    /\ Len(merged[1]) = 3

\* Positions <<team, answer>> of the answers of a snapshot, and the walk order
\* teams first, then each team's answers.
AnswerPositions(teams) ==
    UNION {{<<t, a>> : a \in 1..Len(teams[t].answers)} : t \in 1..Len(teams)}

WalkedBefore(p, q) == p[1] < q[1] \/ (p[1] = q[1] /\ p[2] < q[2])

\* Where the walk first meets an answer for task id.
FirstMet(teams, id) ==
    CHOOSE p \in AnswerPositions(teams) :
        /\ teams[p[1]].answers[p[2]].taskId = id
        /\ \A q \in AnswerPositions(teams) :
              teams[q[1]].answers[q[2]].taskId = id => (q = p \/ WalkedBefore(p, q))

\* C11: the merged catalog is the authoritative entries in their upstream
\* order followed by the synthetic entries in the order their taskId is first
\* met walking the teams in snapshot order and each team's answers in order;
\* every synthetic entry has its id as title and type "synthetic".
C11_MergeOrder ==
    merged # NoList =>
        LET out == merged[1]
            n == Len(inTasks)
            known == {inTasks[i].id : i \in 1..n}
            referenced == {inResults[p[1]].answers[p[2]].taskId : p \in AnswerPositions(inResults)}
        IN  /\ Len(out) >= n
            /\ SubSeq(out, 1, n) = inTasks
            /\ \A i \in (n + 1)..Len(out) :
                  /\ out[i].type = "synthetic"
                  /\ out[i].title = out[i].id
                  /\ out[i].id \in referenced \ known
            /\ \A i, j \in (n + 1)..Len(out) :
                  i < j => WalkedBefore(FirstMet(inResults, out[i].id),
                                        FirstMet(inResults, out[j].id))

\* One authoritative entry, then a synthetic one met in the first team and
\* one met in the second team.
C11_Witness ==
    /\ merged # NoList
    /\ Len(inTasks) = 1
    /\ Len(merged[1]) = 3
    /\ Len(inResults) = 2
    /\ Len(inResults[1].answers) = 2
    /\ Len(inResults[2].answers) >= 1
    /\ merged[1][1] = inTasks[1]
    /\ merged[1][2].id = inResults[1].answers[1].taskId
    /\ inResults[1].answers[2].taskId = inTasks[1].id
    /\ merged[1][3].id = inResults[2].answers[1].taskId

\* C12: once the initial load of a view has run the task merge, and after any
\* refresh polls that followed, every answer of the displayed snapshot
\* references a task of the catalog the view holds.
C12_AnswersResolveInCatalog ==
    (/\ mounted
     /\ ~isLoading
     /\ error = Absent
     /\ results # NoList
     /\ \A i \in 1..Len(loads) : loads[i].refresh)
        => \A p \in AnswerPositions(results[1]) :
              results[1][p[1]].answers[p[2]].taskId \in {tasks[i].id : i \in 1..Len(tasks)}

----------------------------------------------------------------------------
(* Claims about the photo aggregator and the pure helpers of the service *)

\* fetchGamePhotos has returned a collection.
PhotosReturned == op = "photos" /\ pc = "done" /\ ret.kind = "value"

\* C13: no two photos of a collection returned by fetchGamePhotos have the
\* same url, whichever media endpoints and answer payloads surfaced them.
C13_PhotoUrlsUnique ==
    PhotosReturned =>
        \A i, j \in 1..Len(ret.val) : ret.val[i].url = ret.val[j].url => i = j

\* Two media endpoints surfaced http://x/1.jpg; one photo carries it.
C13_Witness ==
    /\ PhotosReturned
    /\ Cardinality({i \in 1..Len(acc) : PhotoUrl(acc[i]) = "http://x/1.jpg"}) >= 2
    /\ Cardinality({i \in 1..Len(ret.val) : ret.val[i].url = "http://x/1.jpg"}) = 1
    /\ Len(ret.val) >= 2

\* C14: a credential whose trimmed form starts, in any letter case, with
\* "ApiKey-v1" gets the header "ApiKey-v1 <token without the prefix>"; every
\* other credential gets "Bearer <token>".
C14_HeaderByDialect ==
    res # NoList =>
        LET trimmed == Trim(arg)
        IN  IF startsWith(toLowerCase(trimmed), SchemeLower)
            THEN res[1] = SchemeHeader \o Trim(substring(trimmed, 9))
            ELSE res[1] = BearerHeader \o trimmed

\* What the normalizer is specified to return for a body: the body when it is
\* an array, else its data field when that is an array, else its items field
\* when that is an array, else the empty list.
UnwrapExpected(json) ==
    IF IsArray(json.val) THEN json.val
    ELSE IF IsArray(Field(json, "data")) THEN Field(json, "data")
    ELSE IF IsArray(Field(json, "items")) THEN Field(json, "items")
    ELSE JArray(<<>>)

\* C15: for every body shape the envelope expression does not throw and
\* returns the body / data / items array by that priority, else an empty
\* list; it never returns a non-array.
C15_UnwrapContract ==
    res # NoList =>
        /\ ~res[1].threw
        /\ IsArray(res[1].value)
        /\ res[1].value = UnwrapExpected(arg.json)

\* The task has an identifier: a non-empty id string.
HasIdentifier(t) == t.kind = "task" /\ t.id.kind = "string" /\ t.id.str # <<>>

\* C16: for a task that has an identifier getTaskTitle returns a non-empty
\* string, and calling it again on the same task returns the same string.
C16_TitleTotalAndStable ==
    /\ [](res # NoList /\ HasIdentifier(arg) => res[1] # <<>>)
    /\ [][res # NoList => res' = res]_vars

\* A task whose text fields all extract to nothing gets its identifier.
C16_Witness ==
    /\ res # NoList
    /\ HasIdentifier(arg)
    /\ arg.shortIntro = Markup
    /\ arg.content.kind = "object"
    /\ arg.title = TString(<<"t">>) /\ arg.intro = TUndefined /\ arg.text = Markup
    /\ res[1] = arg.id.str

\* fetchGameResults has returned a snapshot.
ResultsReturned == op = "results" /\ pc = "done" /\ ret.kind = "value"

\* C17: in a snapshot returned by fetchGameResults the positions of the n
\* teams are exactly 1..n, each once, also when only some upstream records
\* carry a position of their own.
C17_PositionsDense ==
    ResultsReturned =>
        /\ {ret.val[i].position : i \in 1..Len(ret.val)} = 1..Len(ret.val)
        /\ \A i, j \in 1..Len(ret.val) :
               ret.val[i].position = ret.val[j].position => i = j

\* C18: in a snapshot returned by fetchGameResults every team's score is at
\* least the score of the team after it, whichever candidate served it.
C18_ScoreDescending ==
    ResultsReturned =>
        \A i \in 1..(Len(ret.val) - 1) : ret.val[i].score >= ret.val[i + 1].score

\* C19: in a results query a 2xx response with an empty collection is followed
\* by the first transport of the next candidate; after the last candidate the
\* query completes with the empty list, and a results query never ends by
\* throwing.
C19_EmptyResultsSkipped ==
    op = "results" =>
        /\ ret.kind # "threw"
        /\ \A i \in LogIdx :
             reqLog[i].n = 0 =>
                 /\ i < Len(reqLog) =>
                      reqLog[i + 1].c = reqLog[i].c + 1 /\ reqLog[i + 1].p = 1
                 /\ i = Len(reqLog) =>
                      IF reqLog[i].c < NumCandidates("results")
                      THEN pc = "wait" /\ cand = reqLog[i].c + 1 /\ proxy = 1
                      ELSE pc = "done" /\ ret = Value(<<>>)

\* All three results candidates answered 2xx with an empty collection, the
\* second one on a relay, and the query returned the empty list.
C19_Witness ==
    /\ op = "results"
    /\ pc = "done"
    /\ ret = Value(<<>>)
    /\ Len(reqLog) = 4
    /\ reqLog[2].st = 500
    /\ \A c \in 1..NumCandidates("results") :
           \E i \in LogIdx : reqLog[i].c = c /\ reqLog[i].n = 0

\* The request logged at i was followed by a request to candidate c on
\* transport p, or that request is the outstanding one.
FollowedBy(i, c, p) ==
    IF i < Len(reqLog)
    THEN reqLog[i + 1].c = c /\ reqLog[i + 1].p = p
    ELSE pc = "wait" /\ cand = c /\ proxy = p

\* The candidate of the request logged at i was given up right after it.
GivenUpAfter(i) ==
    IF i < Len(reqLog) THEN FollowedBy(i, reqLog[i].c + 1, 1)
    ELSE IF reqLog[i].c < NumCandidates(op) THEN FollowedBy(i, reqLog[i].c + 1, 1)
    ELSE pc = "done"

\* C20 (as stated): a network failure or an error status other than 401 / 403
\* on a transport that is not the last one is followed by the next transport
\* of the same candidate.
C20_ErrorsRetryNextTransport ==
    \A i \in LogIdx :
        (/\ reqLog[i].st = 0 \/ (~IsOk(reqLog[i].st) /\ reqLog[i].st \notin AuthStatuses)
         /\ reqLog[i].p < Len(PROXIES))
            => FollowedBy(i, reqLog[i].c, reqLog[i].p + 1)

\* Error statuses that end the transports of a candidate without being auth
\* errors.
NotRetried == {404, 422}

\* C20 (amended): a network failure or an error status other than 401, 403,
\* 404 and 422 is followed by the next transport of the same candidate, and
\* by giving the candidate up when it came from the last transport; a 404 or
\* 422 gives the candidate up at once, on whichever transport it came.
C20_TransientRetriesNextTransport ==
    \A i \in LogIdx :
        /\ (reqLog[i].st = 0 \/ (~IsOk(reqLog[i].st)
                                   /\ reqLog[i].st \notin AuthStatuses \cup NotRetried))
              => IF reqLog[i].p < Len(PROXIES)
                 THEN FollowedBy(i, reqLog[i].c, reqLog[i].p + 1)
                 ELSE GivenUpAfter(i)
        /\ reqLog[i].st \in NotRetried => GivenUpAfter(i)

\* A 500 on the direct transport was retried on the first relay, whose 404
\* ended the candidate although a relay was left.
C20_Witness ==
    /\ Len(reqLog) >= 3
    /\ reqLog[1] = [c |-> 1, p |-> 1, st |-> 500, n |-> -1]
    /\ reqLog[2] = [c |-> 1, p |-> 2, st |-> 404, n |-> -1]
    /\ reqLog[3].c = 2 /\ reqLog[3].p = 1

----------------------------------------------------------------------------
(* Claims about sequencing, termination and parse errors of a query *)

\* Requests of the query that have been issued and have not settled.
Outstanding == issued - Len(reqLog)

\* C21: at most one request of a query is outstanding at any time: every
\* request was issued after all earlier ones had settled, and one is
\* outstanding exactly while the query is suspended at its fetch.
C21_OneRequestOutstanding ==
    /\ Outstanding \in {0, 1}
    /\ Outstanding = 1 <=> pc = "wait"

\* The query is at the second transport of its second candidate, four
\* requests having settled one after the other.
C21_Witness ==
    /\ pc = "wait" /\ cand = 2 /\ proxy = 2
    /\ Len(reqLog) = 4
    /\ issued = 5

\* C22: a query issues at most (candidates x transports) requests, requests
\* no candidate / transport pair twice, and, every fetch settling, completes.
C22_BoundedAndTerminates ==
    /\ [](op # "none" =>
            /\ issued <= NumCandidates(op) * Len(PROXIES)
            /\ \A i, j \in LogIdx :
                   (reqLog[i].c = reqLog[j].c /\ reqLog[i].p = reqLog[j].p) => i = j
            /\ \A i \in LogIdx : pc = "wait" => ~(reqLog[i].c = cand /\ reqLog[i].p = proxy))
    /\ (pc = "wait") ~> (pc = "done")

\* Every transport of every results candidate was requested and failed: nine
\* requests, and the query is over.
C22_Witness ==
    /\ op = "results"
    /\ pc = "done"
    /\ issued = NumCandidates("results") * Len(PROXIES)
    /\ Len(reqLog) = issued

\* C23: a request that gets no response is timed out: the sequencer still
\* leaves the transport it waits on, and the query completes, whether or not
\* the fetch ever settles.
C23_AdvancesWithoutResponse ==
    /\ \A c \in 1..3, p \in 1..Len(PROXIES) :
           (pc \in {"wait", "hung"} /\ cand = c /\ proxy = p)
               ~> (pc = "done" \/ cand # c \/ proxy # p)
    /\ (pc \in {"wait", "hung"}) ~> (pc = "done")

\* C24: a 2xx response whose body cannot be parsed or processed ends its
\* candidate like a transient failure (the next candidate follows), and no
\* fetch operation settles by throwing.
C24_ParseErrorSkipsCandidate ==
    /\ \A i \in LogIdx :
           (IsOk(reqLog[i].st) /\ reqLog[i].n = -1) => GivenUpAfter(i)
    /\ pc = "done" => ret.kind # "threw"

\* C25 (as stated): a candidate that answers 2xx with a non-empty collection
\* ends the query: no request follows it (tasks and results by the log; games
\* and the media endpoints of photos by the records gathered so far).
C25_StopsAtFirstNonEmpty ==
    /\ \A i \in LogIdx : reqLog[i].n > 0 => (i = Len(reqLog) /\ pc = "done")
    /\ (op = "games" /\ acc # <<>>) => pc = "done"
    /\ (op = "photos" /\ phase = "media" /\ acc # <<>>) => pc = "done"

\* The records a finished query returned carry the identifier x.
ReturnsId(x) == \E k \in 1..Len(ret.val) : ret.val[k].id = x

\* C25 (amended): a tasks or results query ends at the first candidate that
\* answers 2xx with a non-empty collection and returns that candidate's
\* records only.  A games query requests every candidate whatever the earlier
\* ones answered and returns the games of all of them, each id once; a photos
\* query never ends inside its media loop and returns a photo for every url
\* gathered from any media endpoint.
C25_FirstNonEmptyOrUnion ==
    /\ op \in {"tasks", "results"} =>
         \A i \in LogIdx :
             reqLog[i].n > 0 =>
                 /\ i = Len(reqLog) /\ pc = "done"
                 /\ ret.val = IF op = "tasks"
                              THEN mapApiTasksToGameTasks(TaskData(reqLog[i].c))
                              ELSE MapTeams(ResultData(reqLog[i].c))
    /\ (op = "games" /\ pc = "done" /\ reqLog # <<>>) =>
         /\ \A c \in 1..NumCandidates("games") : \E i \in LogIdx : reqLog[i].c = c
         /\ \A i \in LogIdx :
                reqLog[i].n > 0 =>
                    \A k \in 1..Len(GameData(reqLog[i].c)) :
                        GameData(reqLog[i].c)[k].id # Absent
                            => ReturnsId(GameData(reqLog[i].c)[k].id)
         /\ \A j, k \in 1..Len(ret.val) : ret.val[j].id = ret.val[k].id => j = k
    /\ (op = "photos" /\ pc = "done") =>
         /\ phase = "results"
         /\ ret.kind = "value" =>
              \A k \in 1..Len(acc) :
                  PhotoUrl(acc[k]) # Absent =>
                      \E j \in 1..Len(ret.val) : ret.val[j].url = PhotoUrl(acc[k])

\* Both games endpoints answered 2xx with games; the second was requested
\* after the first had delivered, and the list holds g1 once and g2.
C25_Witness ==
    /\ op = "games" /\ pc = "done"
    /\ Len(reqLog) = 2
    /\ reqLog[1].n > 0 /\ reqLog[2].n > 0
    /\ Len(ret.val) = 2
    /\ ReturnsId("g1") /\ ReturnsId("g2")

----------------------------------------------------------------------------
(* Claims about the poll diff tracker, the toast and the held catalog *)

\* C26: after every observed snapshot the stored total is that snapshot's
\* answer count, whether it rose, stayed or fell; a snapshot that does not
\* exceed the stored total raises nothing, and a notification's delta is
\* measured against the total stored by the snapshot before it.
C26_StoredTotalIsLastSnapshot ==
    /\ []((mounted /\ nObs > 0) => totalAnswerCountRef = AnswerCount(results[1]))
    /\ [][nObs' = nObs + 1 =>
            LET total == AnswerCount(results'[1])
            IN  /\ totalAnswerCountRef' = total
                /\ total <= totalAnswerCountRef =>
                       (emitted' = emitted /\ liveEvent' = liveEvent)
                /\ emitted' # emitted =>
                       emitted'[Len(emitted')].delta = total - totalAnswerCountRef]_vars

\* Totals 5, 8, 5, 8: the fall to 5 raised nothing and the rise after it was
\* measured against 5.
C26_Witness ==
    /\ mounted
    /\ nObs = 4
    /\ emitted = <<[at |-> 2, delta |-> 3], [at |-> 4, delta |-> 3]>>
    /\ totalAnswerCountRef = 8

\* C27: a displayed notification is cleared in the end by its timer, with no
\* further poll needed: a timer is pending whenever a notification is
\* displayed, and liveEvent returns to null.
C27_ToastExpires ==
    /\ [](liveEvent # 0 => toastTimers > 0)
    /\ (liveEvent # 0) ~> (liveEvent = 0)

\* A notification was displayed and its timer has cleared it; the view is
\* still open and no poll is in flight.
C27_Witness ==
    /\ mounted
    /\ emitted # <<>>
    /\ liveEvent = 0
    /\ toastTimers = 0
    /\ loads = <<>>

\* C28: a timer that fires clears the displayed notification only when it is
\* that notification's own timer, the last one pending: while the timer of a
\* later notification is pending, the timer of an earlier one leaves the
\* display alone.
C28_TimerClearsOwnToastOnly ==
    [][(mounted /\ mounted' /\ toastTimers' = toastTimers - 1
          /\ liveEvent # 0 /\ liveEvent' = 0)
        => toastTimers = 1]_vars

\* C29: the results of overlapping polls are applied in the order in which
\* the polls were issued: the results of a poll are never applied (displayed
\* and counted by the tracker) after those of a poll issued later.
C29_SnapshotsInIssueOrder == ~order.late

\* C30: while a results view stays open on its game and shows no error, no
\* step starts another full load (the one that fetches the game info and the
\* task catalog): every loadData call made then is a refresh, and a catalog
\* that has been set is not replaced.
C30_CatalogFetchedOnce ==
    [][(mounted /\ mounted' /\ gameId' = gameId /\ error = Absent) =>
          /\ Len(loads') > Len(loads) => loads'[Len(loads')].refresh
          /\ tasks # <<>> => tasks' = tasks]_vars

\* The value resolves to something: extract gives a non-empty string.
Resolves(v) == Extracted(extract(v))

\* The fields of a raw task by priority class.
ShortFields(t) == {t.shortIntro, t.short_intro, t.comments}
LongFields(t) == {t.intro, t.title, t.text, t.question}

\* C31: the title is taken from the highest priority class (short-form
\* introduction, content tree, long-form intro / title / text / question,
\* identifier, "Unknown task") in which a field is present and resolves to
\* something; a lower class decides only when every field of the higher
\* classes is absent or resolves to nothing.
C31_PriorityOrder ==
    res # NoList /\ arg.kind = "task" =>
        IF \E f \in ShortFields(arg) : Resolves(f)
        THEN \E f \in ShortFields(arg) : Resolves(f) /\ res[1] = extract(f)[1]
        ELSE IF Resolves(arg.content) THEN res[1] = extract(arg.content)[1]
        ELSE IF \E f \in LongFields(arg) : Resolves(f)
        THEN \E f \in LongFields(arg) : Resolves(f) /\ res[1] = extract(f)[1]
        ELSE IF TTruthy(arg.id) THEN res[1] = arg.id.str
        ELSE res[1] = UnknownTask

----------------------------------------------------------------------------
(* The recursion of extract, call by call, on values that are held by       *)
(* reference: an object is a cell of a heap and its text, content items and *)
(* title name a cell, a string or nothing, so that a value can contain      *)
(* itself.                                                                  *)

\* Frames the call stack of the engine holds before it throws RangeError.
StackLimit == 4

Cells == {"n1", "n2"}

\* "u" is undefined (or any falsy value), "s" a non-empty string.
Leaves == {"u", "s"}

Refs == Leaves \cup Cells

\* content is not an array (NoList) or an array of values
Contents ==
    {NoList, Some(<<>>)} \cup {Some(<<r>>) : r \in Refs}
        \cup {Some(<<"s", r>>) : r \in Refs}

ObjectCells == [text : Refs, content : Contents, title : Refs]

Heaps == [Cells -> ObjectCells]

\* One activation of extract(val): idx is the content item whose extract call
\* was made last (0: none), back tells that a call made by it has returned.
Frame(val) == [val |-> val, idx |-> 0, back |-> FALSE]

Top == res.stack[Len(res.stack)]

NoCall == "none"

\* The value the activation f calls extract on next, NoCall when it returns:
\* val.text, else the items of val.content one after the other, else val.title.
Callee(f) ==
    IF f.val \in Leaves THEN NoCall
    ELSE LET o == arg.heap[f.val]
         IN  IF o.text # "u"
             THEN IF f.back THEN NoCall ELSE o.text
             ELSE IF o.content # NoList
             THEN IF f.idx < Len(o.content[1])
                  THEN o.content[1][f.idx + 1] ELSE NoCall
             ELSE IF o.title # "u"
             THEN IF f.back THEN NoCall ELSE o.title
             ELSE NoCall

WalkDraw ==
    /\ arg \in [heap : Heaps, root : Cells]
    /\ res = [pc |-> "idle", stack |-> <<>>]

\* getTaskTitle calls extract on a field of the task
ExtractStart ==
    /\ res.pc = "idle"
    /\ res' = [pc |-> "run", stack |-> <<Frame(arg.root)>>]
    /\ UNCHANGED <<arg, qvars, vvars, avars, rvars, gvars>>

\* extract calls itself: extract(val.text), extract(c) or extract(val.title)
ExtractDescend ==
    /\ res.pc = "run"
    /\ Callee(Top) # NoCall
    /\ Len(res.stack) < StackLimit
    /\ LET n == Len(res.stack)
           caller == [Top EXCEPT !.idx = IF arg.heap[Top.val].text = "u"
                                            /\ arg.heap[Top.val].content # NoList
                                         THEN @ + 1 ELSE @,
                                 !.back = FALSE]
       IN  res' = [res EXCEPT !.stack =
                       Append([@ EXCEPT ![n] = caller], Frame(Callee(Top)))]
    /\ UNCHANGED <<arg, qvars, vvars, avars, rvars, gvars>>

\* extract calls itself with no room left on the call stack: the engine
\* throws RangeError, which unwinds every activation.
ExtractOverflow ==
    /\ res.pc = "run"
    /\ Callee(Top) # NoCall
    /\ Len(res.stack) = StackLimit
    /\ res' = [pc |-> "overflow", stack |-> <<>>]
    /\ UNCHANGED <<arg, qvars, vvars, avars, rvars, gvars>>

\* an activation returns to its caller, the outermost one to getTaskTitle
ExtractReturn ==
    /\ res.pc = "run"
    /\ Callee(Top) = NoCall
    /\ LET n == Len(res.stack)
       IN  res' = IF n = 1 THEN [pc |-> "returned", stack |-> <<>>]
                  ELSE [res EXCEPT !.stack =
                            [SubSeq(@, 1, n - 1) EXCEPT ![n - 1].back = TRUE]]
    /\ UNCHANGED <<arg, qvars, vvars, avars, rvars, gvars>>

InitWalk == QueryInit /\ ViewInit /\ AppInit /\ MergeIdle /\ WalkDraw

NextWalk == ExtractStart \/ ExtractDescend \/ ExtractOverflow \/ ExtractReturn

\* One call of extract, activation by activation.
SpecWalk == InitWalk /\ [][NextWalk]_vars

\* C32: extract returns on every value, cyclic and deeply nested ones
\* included: its recursion never runs out of call stack.
C32_ExtractAlwaysReturns == res.pc # "overflow"

\* The short-form candidate of getTaskTitle resolves to nothing, so that the
\* content tree is the candidate that is tried.
ContentTried(t) ==
    /\ t.kind = "task"
    /\ ~Resolves(OrElse(t.shortIntro, OrElse(t.short_intro, t.comments)))

\* The title of the task when its content contributes nothing.
WithoutContent(t) == TaskTitle([t EXCEPT !.content = TUndefined])

\* The sub-nodes' resolved strings, the empty ones left out.
ResolvedParts(items) ==
    LET kept == SelectSeq(items, Resolves)
    IN  [i \in 1..Len(kept) |-> extract(kept[i])[1]]

\* Position before the i-th part in a string of parts separated by one blank.
RECURSIVE Offset(_, _)
Offset(parts, i) ==
    IF i = 1 THEN 0 ELSE Offset(parts, i - 1) + Len(parts[i - 1]) + 1

\* s is the parts in order with exactly one blank between neighbours.
SingleSpaced(s, parts) ==
    LET n == Len(parts)
    IN  /\ n > 0
        /\ Len(s) = Offset(parts, n) + Len(parts[n])
        /\ \A i \in 1..n :
              SubSeq(s, Offset(parts, i) + 1, Offset(parts, i) + Len(parts[i]))
                  = parts[i]
        /\ \A i \in 2..n : s[Offset(parts, i)] = " "

\* A string resolves to itself without its tags (and outer blanks); an object
\* resolves through its text, or through its title when it has neither text
\* nor a content list.
StringsAndObjectsResolve ==
    res # NoList /\ ContentTried(arg) =>
        LET c == arg.content
        IN  /\ c.kind = "string" /\ Trim(StripTags(c.str)) # <<>>
                => res[1] = Trim(StripTags(c.str))
            /\ c.kind = "object" /\ TTruthy(c.text) /\ Resolves(c.text)
                => res[1] = extract(c.text)[1]
            /\ c.kind = "object" /\ ~TTruthy(c.text) /\ c.content.kind # "array"
                  /\ Resolves(c.title)
                => res[1] = extract(c.title)[1]

\* C33 as stated: strings and objects resolve, and a node that is itself a
\* list of sub-nodes resolves to the sub-nodes' resolved strings joined with
\* single blanks.
C33_ListNodeJoined ==
    /\ StringsAndObjectsResolve
    /\ res # NoList /\ ContentTried(arg) /\ arg.content.kind = "array"
          /\ ResolvedParts(arg.content.items) # <<>>
        => SingleSpaced(res[1], ResolvedParts(arg.content.items))

\* C33: strings and objects resolve; an object without text whose content
\* field is a list resolves to the resolved strings of the list's items
\* joined with single blanks, empty results adding no blank; a node that is
\* itself a list contributes nothing.
C33_ContentListOfObjectJoined ==
    /\ StringsAndObjectsResolve
    /\ res # NoList /\ ContentTried(arg) /\ arg.content.kind = "object"
          /\ ~TTruthy(arg.content.text) /\ arg.content.content.kind = "array"
          /\ ResolvedParts(arg.content.content.items) # <<>>
        => SingleSpaced(res[1], ResolvedParts(arg.content.content.items))
    /\ res # NoList /\ ContentTried(arg) /\ arg.content.kind = "array"
        => res[1] = WithoutContent(arg)

\* A content object whose list holds markup, a string, nothing and an object
\* has given "p q".
C33_Witness ==
    /\ res # NoList
    /\ ContentTried(arg)
    /\ arg.content.kind = "object"
    /\ arg.content.content.kind = "array"
    /\ Len(arg.content.content.items) = 4
    /\ res[1] = <<"p", " ", "q">>

\* The candidate endpoint whose body holds the media record.
CandidateOf(rec) ==
    CHOOSE c \in 1..NumCandidates("photos") :
        \E k \in 1..Len(MediaData(c)) : MediaData(c)[k] = rec

\* Positions of the collected media records that resolve to the url.
MediaWith(u) == {k \in 1..Len(acc) : PhotoUrl(acc[k]) = u}

\* C34: the media records are collected in candidate order and stand before
\* the photos made from answers; for every url the returned photo is the one
\* mapped from the earliest record with that url, so a url a media endpoint
\* surfaced is never described by a later endpoint's record or by an answer.
C34_FirstOccurrenceWins ==
    PhotosReturned =>
        /\ \A k, l \in 1..Len(acc) : k < l => CandidateOf(acc[k]) <= CandidateOf(acc[l])
        /\ \A i \in 1..Len(ret.val) :
              MediaWith(ret.val[i].url) # {} =>
                  LET first == CHOOSE k \in MediaWith(ret.val[i].url) :
                                   \A m \in MediaWith(ret.val[i].url) : k <= m
                  IN  ret.val[i] = MapPhoto(acc[first])
        /\ \A i, j \in 1..Len(ret.val) :
              i < j /\ MediaWith(ret.val[j].url) # {}
                  => MediaWith(ret.val[i].url) # {}

\* http://x/1.jpg came from the first and the second media endpoint; the photo
\* returned is the first endpoint's record, and the photo of an answer of team
\* Red, of another url, stands after the media photos.
C34_Witness ==
    /\ PhotosReturned
    /\ Cardinality(MediaWith("http://x/1.jpg")) = 2
    /\ \E i \in 1..Len(ret.val) :
          /\ ret.val[i].url = "http://x/1.jpg"
          /\ ret.val[i].id = "m1"
          /\ ret.val[i].teamName = "Unknown Team"
    /\ \E j \in 1..Len(ret.val) : ret.val[j].url = "http://x/3.jpg"
    /\ ret.val[Len(ret.val)].teamName = "Red"

\* fetchGamePhotos is over and every element the media endpoints gave is a
\* record (an object), with or without a url.
PhotosOfRecords == op = "photos" /\ pc = "done" /\ ~HasNull(acc)

\* C35: a media record with no resolvable url is left out without an error:
\* the call returns a collection, every photo in it has a url, and the url
\* of every record that has one is in the collection.
C35_UrllessDiscardedSilently ==
    PhotosOfRecords =>
        /\ ret.kind = "value"
        /\ \A i \in 1..Len(ret.val) : ret.val[i].url # Absent
        /\ \A k \in 1..Len(acc) :
              PhotoUrl(acc[k]) # Absent =>
                  \E i \in 1..Len(ret.val) : ret.val[i].url = PhotoUrl(acc[k])

\* The first media endpoint gave a record with a url and one without; the
\* collection holds the photo of the first and nothing for the second.
C35_Witness ==
    /\ PhotosOfRecords
    /\ \E k \in 1..Len(acc) : acc[k].id = "m2" /\ PhotoUrl(acc[k]) = Absent
    /\ \E i \in 1..Len(ret.val) : ret.val[i].id = "m1"
    /\ \A i \in 1..Len(ret.val) : ret.val[i].id # "m2"

----------------------------------------------------------------------------
(* The earlier revision of LoquizResults (components/LoquizResults.tsx and  *)
(* part_001): loadData awaits results, info and tasks in one Promise.all,   *)
(* with the revision of the service whose fetch functions throw.            *)

\* `Task ${ans.taskId}`
TaskLabel(id) ==
    CASE id = "t1" -> "Task t1"
      [] id = "t2" -> "Task t2"
      [] id = "t3" -> "Task t3"
      [] OTHER     -> "Task t4"

\* derivedTasks: one entry per answer taskId, first seen first
RECURSIVE DerivedTasks(_, _)
DerivedTasks(seen, ids) ==
    IF ids = <<>> THEN <<>>
    ELSE IF Head(ids) \in seen THEN DerivedTasks(seen, Tail(ids))
    ELSE <<[id |-> Head(ids), title |-> TaskLabel(Head(ids)), type |-> "unknown"]>>
            \o DerivedTasks(seen \cup {Head(ids)}, Tail(ids))

\* if (taskList.length === 0 && data && data.length > 0) taskList = derived
LegacyTasks(taskList, data) ==
    IF Len(taskList) = 0 /\ Len(data) > 0
    THEN DerivedTasks({}, AnswerIds(data)) ELSE taskList

\* What await Promise.all(promises) settles with: a rejection (a fetch
\* function threw) or the values of the fetch functions.
Rejected == [kind |-> "rejected"]

LegacySettled(refresh) ==
    {Rejected} \cup
    {[kind |-> "value", data |-> r.val, info |-> info, taskList |-> tl] :
        r \in ResultsReturns,
        info \in IF refresh THEN {InfoReturns} ELSE {{i} : i \in InfoReturns},
        tl \in IF refresh THEN {<<>>} ELSE TasksReturns}

\* loadData(isRefresh) up to its await: setIsLoading(true) for a first load,
\* setError(null) for every call.
LegacyCall(refresh) ==
    /\ nLoads < MaxLoads
    /\ InFlight < MaxInFlight
    /\ isLoading' = IF refresh THEN isLoading ELSE (viewMode = "ranking")
    /\ error' = Absent
    /\ loads' = Append(loads, Load(refresh))
    /\ nLoads' = nLoads + 1
    /\ UNCHANGED <<mounted, stale, left, gameId, results, tasks, gameName, viewMode,
                   liveEvent, totalAnswerCountRef, isFirstLoadRef, toastTimers,
                   nObs, lastObs, track, emitted, qvars, avars, rvars, pvars, gvars>>

\* setInterval(() => { loadData(true); }, 10000) fires.
LegacyTick == mounted /\ LegacyCall(TRUE)

\* handleRefresh, a button of the results screen
LegacyRefresh == mounted /\ ~isLoading /\ error = Absent /\ LegacyCall(TRUE)

\* await Promise.all(promises) resumes in the i-th suspended call and the
\* call runs to its end: try body or catch, then finally.
LegacySettle(i) ==
    /\ mounted
    /\ i \in 1..Len(loads)
    /\ \E s \in LegacySettled(loads[i].refresh) :
         LET l == loads[i]
         IN  /\ loads' = RemoveAt(loads, i)
             /\ isLoading' = IF l.refresh THEN isLoading ELSE FALSE
             /\ IF s.kind = "rejected"
                THEN /\ error' = IF l.refresh THEN error ELSE "Error"
                     /\ UNCHANGED <<results, liveEvent, toastTimers, totalAnswerCountRef,
                                    isFirstLoadRef, gameName, tasks>>
                ELSE LET total == TotalAnswers(s.data)
                         notify == ShouldNotify(isFirstLoadRef, totalAnswerCountRef, total)
                     IN  /\ results' = Some(s.data)
                         /\ liveEvent' = IF notify THEN total - totalAnswerCountRef
                                         ELSE liveEvent
                         /\ toastTimers' = IF notify THEN toastTimers + 1 ELSE toastTimers
                         /\ totalAnswerCountRef' = total
                         /\ isFirstLoadRef' = FALSE
                         /\ gameName' = IF l.refresh THEN gameName
                                        ELSE (CHOOSE x \in s.info : TRUE).name
                         /\ tasks' = IF l.refresh THEN tasks
                                     ELSE LegacyTasks(s.taskList, s.data)
                         /\ error' = error
    /\ UNCHANGED <<mounted, stale, left, gameId, viewMode, nLoads, nObs, lastObs,
                   track, emitted, qvars, avars, rvars, pvars, gvars>>

LegacySettleAny == \E i \in 1..Len(loads) : LegacySettle(i)

NextLegacy == MountAny \/ LegacyTick \/ LegacyRefresh \/ LegacySettleAny

\* One instance of the earlier LoquizResults with its polls.
SpecLegacy == Init /\ [][NextLegacy]_vars

\* A step of a background refresh: loadData(true) is called, or a suspended
\* loadData(true) call resumes and runs to its end.
RefreshStep ==
    /\ mounted /\ mounted'
    /\ \/ /\ Len(loads') = Len(loads) + 1
          /\ loads'[Len(loads')].refresh
       \/ \E i \in 1..Len(loads) : loads[i].refresh /\ loads' = RemoveAt(loads, i)

\* C36: no step of a background refresh, successful or failed, changes the
\* loading flag, the error state, the game name or the task catalog.
C36_RefreshFrame ==
    [][RefreshStep => UNCHANGED <<isLoading, error, gameName, tasks>>]_vars

----------------------------------------------------------------------------
(* LoquizResults and the preloader of App side by side.  The two hold their *)
(* own state and share none, so the runs of each are taken with the other   *)
(* at rest.                                                                 *)

ViewAtRest == ~mounted /\ nLoads = 0 /\ stale = 0

AppAtRest ==
    /\ selectedGameId = "none"
    /\ currentView = "lobby"
    /\ preloads = <<>>
    /\ writer = "none"
    /\ ~dataLoaded

ViewRun ==
    /\ AppAtRest
    /\ \/ MountAny
       \/ Tick
       \/ ManualRefresh
       \/ ToggleViewMode
       \/ Retry
       \/ ResolveResultsAny
       \/ ResolveMetaAny

AppRun == ViewAtRest /\ NextApp

NextLoading == ViewRun \/ AppRun

\* The loading gates of the results view and of App.
SpecLoading == Init /\ [][NextLoading]_vars

\* A suspended loadData(false) call of the open view runs to its end.
InitialLoadSettles ==
    /\ mounted /\ mounted'
    /\ \E i \in 1..Len(loads) : ~loads[i].refresh /\ loads' = RemoveAt(loads, i)

\* C37: when a loadData(false) call ends, by its try block or its catch,
\* isLoading is false, and the open view does not show the spinner while no
\* such call is suspended; when a loadGameData call ends, by either path,
\* dataLoaded is true, and it is true whenever a game is selected and no
\* preload is suspended.
C37_LoadingEnds ==
    /\ [][InitialLoadSettles => ~isLoading']_vars
    /\ [](mounted /\ (\A i \in 1..Len(loads) : loads[i].refresh) => ~isLoading)
    /\ [][Len(preloads') < Len(preloads) => dataLoaded']_vars
    /\ [](selectedGameId # "none" /\ preloads = <<>> => dataLoaded)

\* The initial load of the view has ended in its catch block: the error is
\* set, nothing is suspended and the spinner is gone.
C37_Witness ==
    /\ mounted
    /\ loads = <<>>
    /\ error # Absent
    /\ ~isLoading

----------------------------------------------------------------------------
(* The answer mapping of fetchGameResults and the answer count of loadData  *)
(* applied to drawn team records.                                           *)

NoRef == RawAnswer(Absent, Absent, Absent)

\* Raw answers that name their task in one of the five places, in two, or in
\* none.
RefAnswers ==
    {NoRef,
     RawAnswer("t1", Absent, Absent),
     RawAnswer(Absent, "t2", Absent),
     [NoRef EXCEPT !.task = "t3"],
     [NoRef EXCEPT !.question = "t4"],
     [NoRef EXCEPT !.question_id = "t1"],
     RawAnswer("t1", "t2", Absent)}

AnswerLists == UNION {[1..k -> RefAnswers] : k \in 0..MaxAnswers}

AnswersDraw ==
    /\ arg \in {<<RawTeam("Red", 20, 0, a), RawTeam("Blue", 10, 0, b)>> :
                   a \in AnswerLists, b \in AnswerLists}
    /\ res = NoList

\* data.map((team, index) => ...) of fetchGameResults, then the sum
\* currentTotalAnswers of loadData over the snapshot
ApplyResults ==
    /\ res = NoList
    /\ res' = Some([snapshot |-> MapTeams(arg), total |-> TotalAnswers(MapTeams(arg))])
    /\ UNCHANGED <<arg, qvars, vvars, avars, rvars, gvars>>

InitAnswers == QueryInit /\ ViewInit /\ AppInit /\ MergeIdle /\ AnswersDraw

NextAnswers == ApplyResults

\* One results body mapped to a snapshot and counted.
SpecAnswers == InitAnswers /\ [][NextAnswers]_vars

\* The raw answer names a task in one of the five places.
HasReference(a) ==
    \E v \in {a.taskId, a.questionId, a.task, a.question, a.question_id} : v # Absent

\* The raw answers of the list that name a task.
Referenced(raws) == {i \in 1..Len(raws) : HasReference(raws[i])}

\* C38: a snapshot has no answer with taskId 'unknown-id': every team keeps
\* exactly its raw answers that name a task, in order, and the answer count
\* of the poll diff tracker is the number of those.
C38_UnresolvedAnswersDropped ==
    res # NoList =>
        /\ \A t \in 1..Len(res[1].snapshot) :
              LET answers == res[1].snapshot[t].answers
              IN  /\ \A i \in 1..Len(answers) : answers[i].taskId # "unknown-id"
                  /\ Len(answers) = Cardinality(Referenced(arg[t].answers))
                  /\ \A i \in 1..Len(answers) :
                        /\ HasReference(answers[i].raw)
                        /\ \E k \in Referenced(arg[t].answers) :
                              /\ arg[t].answers[k] = answers[i].raw
                              /\ Cardinality({m \in Referenced(arg[t].answers) : m < k})
                                    = i - 1
        /\ res[1].total = Cardinality(Referenced(arg[1].answers))
                            + Cardinality(Referenced(arg[2].answers))

\* Red gave an answer that names no task and then one that names it by
\* question_id only; the snapshot holds the second and the count is 1.
C38_Witness ==
    /\ res # NoList
    /\ arg[1].answers = <<NoRef, [NoRef EXCEPT !.question_id = "t1"]>>
    /\ arg[2].answers = <<NoRef>>
    /\ Len(res[1].snapshot[1].answers) = 1
    /\ res[1].snapshot[1].answers[1].taskId = "t1"
    /\ res[1].snapshot[2].answers = <<>>
    /\ res[1].total = 1

\* fetchGames is over.
GamesDone == op = "games" /\ pc = "done"

\* The candidate answered 2xx with a body that holds its game records.
GamesServed(c) ==
    \E i \in 1..Len(reqLog) :
        /\ reqLog[i].c = c
        /\ IsOk(reqLog[i].st)
        /\ reqLog[i].n = Len(GameData(c))

\* The candidates that served a record with the id, and the name the first
\* such record of a candidate gives.
ServedBy(x) ==
    {c \in 1..NumCandidates("games") :
        GamesServed(c) /\ \E k \in 1..Len(GameData(c)) : GameData(c)[k].id = x}

NameIn(c, x) ==
    LET k == CHOOSE j \in 1..Len(GameData(c)) :
                 /\ GameData(c)[j].id = x
                 /\ \A m \in 1..(j - 1) : GameData(c)[m].id # x
        g == GameData(c)[k]
    IN  IF g.title # Absent THEN g.title ELSE g.id

\* C39: fetchGames returns one game for every id that a candidate answering
\* 2xx served, and no other: no id twice and no game without an id, each
\* game named by the earliest candidate that served its id; called with the
\* credential 'GUEST' it returns an empty list and issues no request.
C39_GamesMergedFirstWins ==
    /\ [](GamesDone =>
            /\ ret.kind = "value"
            /\ \A i, j \in 1..Len(ret.val) : ret.val[i].id = ret.val[j].id => i = j
            /\ \A i \in 1..Len(ret.val) :
                  /\ ret.val[i].id # Absent
                  /\ ServedBy(ret.val[i].id) # {}
                  /\ LET first == CHOOSE c \in ServedBy(ret.val[i].id) :
                                      \A d \in ServedBy(ret.val[i].id) : c <= d
                     IN  ret.val[i].name = NameIn(first, ret.val[i].id)
            /\ \A c \in 1..NumCandidates("games") :
                  GamesServed(c) =>
                      \A k \in 1..Len(GameData(c)) :
                          GameData(c)[k].id # Absent =>
                              \E i \in 1..Len(ret.val) : ret.val[i].id = GameData(c)[k].id)
    /\ [][Call("games", "GUEST") =>
            pc' = "done" /\ ret' = Value(<<>>) /\ issued' = 0 /\ reqLog' = reqLog]_vars

\* Both candidates served their games: g1 is named by the first candidate,
\* g2 comes from the second, the record without an id is left out.
C39_Witness ==
    /\ GamesDone
    /\ GamesServed(1)
    /\ GamesServed(2)
    /\ ret.val = <<[id |-> "g1", name |-> "One"], [id |-> "g2", name |-> "g2"]>>

====
